---- MODULE Spec2Model ----
(***************************************************************************)
(* Model of the CriptoBug arbitrage ranking endpoint                       *)
(* (Site/app/api/top-assets/route.ts): the snapshot fan-out, the market    *)
(* index, the candidate selector, the cost model and pair evaluator, the   *)
(* scorer and ranker, and the single-slot result cache.                    *)
(*                                                                         *)
(* Numbers.  JavaScript numbers are modelled in fixed point:               *)
(*   - every percentage is an integer count of basis points (0.01 %),      *)
(*     so 0.35 % is 35 and the factor 0.35 is 35/100;                      *)
(*   - prices are integer counts of a price unit (0.05 of the quote        *)
(*     currency), of a magnitude far from the range limit of a double;     *)
(*   - a division rounds down to a whole basis point: the model's finite   *)
(*     resolution stands for the 53-bit significand of a double, so two    *)
(*     results closer than the resolution come out equal, as they do in    *)
(*     the program for results closer than one unit in the last place.     *)
(* Times are milliseconds, and the clock advances in steps of one second.  *)
(*                                                                         *)
(* Three specifications.  Spec is the cache protocol: GET requests (each   *)
(* split at its await) interleaved over the shared slot, with the upstream *)
(* answering, failing or answering malformed payloads.  SpecRank is the    *)
(* ranking: the pipeline of GET applied to snapshots drawn from a menu of  *)
(* payloads per exchange, under several settings of the guarantee knobs.   *)
(* SpecTrade is POST /trade/order of the DB service (DB/src/server.ts)     *)
(* under the settings of TRADING_DRY_RUN.                                  *)
(***************************************************************************)
EXTENDS Integers, Sequences, FiniteSets, TLC

\* ------------------------------------------------------------------------
\* Bounds of the model
\* ------------------------------------------------------------------------
MaxRequests == 2      \* GET requests over one run
MaxTicks == 4         \* seconds the clock may advance
MaxOrders == 2        \* POST /trade/order requests over one run
MaxJoinRequests == 1  \* GET requests of the join specification
MaxJoinTicks == 3     \* clock steps of the join specification
MaxBookRequests == 2  \* GET requests to the order-book endpoint
MaxBookTicks == 2     \* clock steps of the order-book specification

\* ------------------------------------------------------------------------
\* Generic helpers
\* ------------------------------------------------------------------------
Max(a, b) == IF a >= b THEN a ELSE b

Abs(x) == IF x < 0 THEN -x ELSE x

Range(s) == {s[i] : i \in DOMAIN s}

\* F(v), with v evaluated once and handed to F as a value.
With(v, F(_)) == CHOOSE y \in {F(x) : x \in {v}} : TRUE

\* The function f itself, with all its values evaluated once.
Evaluated(f) == f @@ <<>>

\* floor(a * 10000 / c) for c > 0, by long division (no intermediate product
\* larger than 10 * c).
ScaleDiv(a, c) ==
  LET r1 == (a % c) * 10
      r2 == (r1 % c) * 10
      r3 == (r2 % c) * 10
      r4 == (r3 % c) * 10
  IN  (a \div c) * 10000 + (r1 \div c) * 1000 + (r2 \div c) * 100
      + (r3 \div c) * 10 + (r4 \div c)

SumSeq(s) ==
  LET sum[i \in 0..Len(s)] == IF i = 0 THEN 0 ELSE sum[i - 1] + s[i]
  IN  sum[Len(s)]

\* The concatenation of the sequences of ss, in order.
FlattenSeq(ss) ==
  LET cat[i \in 0..Len(ss)] == IF i = 0 THEN <<>> ELSE cat[i - 1] \o ss[i]
  IN  cat[Len(ss)]

\* ------------------------------------------------------------------------
\* Static tables (lib/pt.ts, route.ts)
\* ------------------------------------------------------------------------
SUPPORTED_EXCHANGES == <<"binance", "bybit", "okx", "kraken", "coinbase">>

IsNotCoinbase(exchange) == exchange # "coinbase"

TOP_ASSETS_EXCHANGES == SelectSeq(SUPPORTED_EXCHANGES, IsNotCoinbase)

Asset(n, s, al) == [name |-> n, symbol |-> s, aliases |-> al]

TOP_30_ASSET_UNIVERSE ==
  << Asset("Bitcoin", "BTC", <<>>),
     Asset("Ethereum", "ETH", <<>>),
     Asset("Tether", "USDT", <<>>),
     Asset("BNB", "BNB", <<"BINANCECOIN">>),
     Asset("XRP", "XRP", <<>>),
     Asset("USD Coin", "USDC", <<>>),
     Asset("Solana", "SOL", <<>>),
     Asset("TRON", "TRX", <<>>),
     Asset("Dogecoin", "DOGE", <<>>),
     Asset("Cardano", "ADA", <<>>),
     Asset("Bitcoin Cash", "BCH", <<>>),
     Asset("Chainlink", "LINK", <<>>),
     Asset("Monero", "XMR", <<>>),
     Asset("Hyperliquid", "HYPE", <<>>),
     Asset("UNUS SED LEO", "LEO", <<>>),
     Asset("Zcash", "ZEC", <<>>),
     Asset("Stellar", "XLM", <<>>),
     Asset("Ethena USDe", "USDE", <<"USDe">>),
     Asset("Litecoin", "LTC", <<>>),
     Asset("Sui", "SUI", <<>>),
     Asset("Dai", "DAI", <<>>),
     Asset("Avalanche", "AVAX", <<>>),
     Asset("Hedera", "HBAR", <<>>),
     Asset("Shiba Inu", "SHIB", <<>>),
     Asset("Uniswap", "UNI", <<>>),
     Asset("PayPal USD", "PYUSD", <<>>),
     Asset("Mantle", "MNT", <<>>),
     Asset("Cronos", "CRO", <<>>),
     Asset("Canton", "CC", <<"CANTO">>),
     Asset("Toncoin", "TON", <<>>) >>

\* Taker fee of an exchange, in basis points (0.1 % = 10).
TAKER_FEE_PERCENT(exchange) ==
  CASE exchange = "binance" -> 10
    [] exchange = "bybit" -> 10
    [] exchange = "okx" -> 10
    [] exchange = "kraken" -> 26
    [] exchange = "coinbase" -> 60

TRANSFER_COST_PERCENT == 12     \* 0.12 %

SLIPPAGE_FLOOR_PERCENT == 5     \* 0.05 %

QUOTE_PRIORITY_DEFAULT == 99

NegInfinity == -2147483647      \* the initial bestNet / bestGross, below every finite net

\* ------------------------------------------------------------------------
\* Environment knobs.  An environment variable is <<>> when unset and <<n>>
\* when set to the decimal string of n (basis points, counts or ms).
\* ------------------------------------------------------------------------
EnvOr(value, default) == IF value = <<>> THEN default ELSE value[1]

\* Math.max(3_000, Number.parseInt(env ?? "15000", 10) || 15000)
TOP_ASSETS_CACHE_TTL_MS(envTtl) ==
  LET parsed == EnvOr(envTtl, 15000)
  IN  Max(3000, IF parsed = 0 THEN 15000 ELSE parsed)

\* Number.parseFloat(env ?? "0.35"), in basis points
GUARANTEE_SAFETY_BUFFER_PERCENT(envBuffer) == EnvOr(envBuffer, 35)

\* Number.parseInt(env ?? "3", 10)
GUARANTEE_MIN_COVERAGE(envMinCoverage) == EnvOr(envMinCoverage, 3)

\* ------------------------------------------------------------------------
\* Upstream payload values.  A numeric field of a market entry is a decimal
\* string: <<n>> stands for the string of the number n, <<>> for a string
\* that is not a number.  base_asset / quote_asset are strings, or Undefined
\* when the entry has no such field.
\* ------------------------------------------------------------------------
Undefined == "<undefined>"

IsString(v) == v # Undefined

Num(n) == <<n>>

NotANumber == <<>>

\* Number.parseFloat, then 0 unless finite
toNumber(value) == IF Len(value) = 1 THEN value[1] ELSE 0

\* value.trim().toUpperCase() over the strings the model's payloads use
normalizeSymbol(value) ==
  CASE value = "btc" -> "BTC"
    [] value = " BTC " -> "BTC"
    [] value = "USDe" -> "USDE"
    [] value = "usdt" -> "USDT"
    [] value = " usd" -> "USD"
    [] value = "eur" -> "EUR"
    [] OTHER -> value

QUOTE_PRIORITY(q) ==
  CASE q = "USDT" -> 0
    [] q = "USD" -> 1
    [] q = "USDC" -> 2
    [] q = "EUR" -> 3
    [] q = "BTC" -> 4
    [] OTHER -> QUOTE_PRIORITY_DEFAULT

getQuotePriority(quoteAsset) == QUOTE_PRIORITY(normalizeSymbol(quoteAsset))
\* Mutation: the slippage estimate from the signed spread.
estimateSlippageSigned(spreadPercent) ==
  Max(SLIPPAGE_FLOOR_PERCENT, (spreadPercent * 35) \div 100)

\* Mutation: the slippage estimate without its floor.
estimateSlippageWithoutFloor(spreadPercent) == (Abs(spreadPercent) * 35) \div 100

estimateSlippagePercent(spreadPercent) ==
  LET scaled == (Abs(spreadPercent) * 35) \div 100
  IN  Max(SLIPPAGE_FLOOR_PERCENT, scaled)

\* ------------------------------------------------------------------------
\* Array.prototype.sort: the stable sort of s by the comparator Cmp (an
\* element goes before another when Cmp is negative; equal elements keep
\* their order).
\* ------------------------------------------------------------------------
StableSort(s, Cmp(_, _)) ==
  LET Sorted(t) ==
        LET n == Len(t)
            pos(i) == 1 + Cardinality({j \in 1..n :
                             \/ Cmp(t[j], t[i]) < 0
                             \/ (Cmp(t[j], t[i]) = 0 /\ j < i)})
            Place(order) == [p \in 1..n |-> t[CHOOSE i \in 1..n : order[i] = p]] \o <<>>
        IN  With([i \in 1..n |-> pos(i)] \o <<>>, Place)
  IN  With(s \o <<>>, Sorted)

\* ------------------------------------------------------------------------
\* Symbol index builder
\* ------------------------------------------------------------------------
\* normalizeSymbol(item.base_asset) throws a TypeError when base_asset is
\* not a string.
buildMarketIndexThrows(items) ==
  \E i \in DOMAIN items : ~IsString(items[i].base_asset)

\* The Map from normalized base asset to the entries of that base asset, in
\* payload order.  A key that is absent from the Map is absent from DOMAIN.
buildMarketIndex(items) ==
  LET keys == {normalizeSymbol(items[i].base_asset) : i \in DOMAIN items}
      EntriesOf(k) == LET Test(item) == normalizeSymbol(item.base_asset) = k
                      IN  SelectSeq(items, Test)
  IN  Evaluated([k \in keys |-> EntriesOf(k)])

\* ------------------------------------------------------------------------
\* Candidate selector
\* ------------------------------------------------------------------------
MatchesOf(baseSymbolKeys, index) ==
  FlattenSeq([k \in DOMAIN baseSymbolKeys |->
                IF baseSymbolKeys[k] \in DOMAIN index
                  THEN index[baseSymbolKeys[k]] ELSE <<>>])

\* normalizeSymbol(item.quote_asset) inside .map throws for a matched entry
\* whose quote_asset is not a string.
selectBestMarketThrows(baseSymbolKeys, index) ==
  \E k \in DOMAIN baseSymbolKeys :
     /\ baseSymbolKeys[k] \in DOMAIN index
     /\ \E i \in DOMAIN index[baseSymbolKeys[k]] :
           ~IsString(index[baseSymbolKeys[k]][i].quote_asset)

ToCandidate(exchange, item) ==
  [exchange |-> exchange,
   marketSymbol |-> item.symbol,
   quoteAsset |-> normalizeSymbol(item.quote_asset),
   ask |-> toNumber(item.taxa_compra),
   bid |-> toNumber(item.taxa_venda),
   last |-> toNumber(item.valor_atual),
   spreadPercent |-> toNumber(item.spread_percentual)]
\* Mutation: only the last price is tested.
IsValidCandidateByLastOnly(item) == item.last > 0

IsValidCandidate(item) == item.ask > 0 /\ item.bid > 0 /\ item.last > 0

CompareCandidates(a, b) ==
  LET q == getQuotePriority(a.quoteAsset) - getQuotePriority(b.quoteAsset)
  IN  IF q # 0 THEN q
      ELSE IF a.spreadPercent # b.spreadPercent
        THEN a.spreadPercent - b.spreadPercent
      ELSE b.bid - a.bid

\* ExchangeCandidate | null: <<candidate>> or <<>>.
selectBestMarketForExchange(exchange, baseSymbolKeys, index) ==
  LET First(ranked) == IF ranked = <<>> THEN <<>> ELSE <<ranked[1]>>
      Select(matches) ==
        IF matches = <<>> THEN <<>>
        ELSE With(StableSort(
                    SelectSeq([i \in DOMAIN matches |-> ToCandidate(exchange, matches[i])],
                              IsValidCandidate),
                    CompareCandidates),
                  First)
  IN  With(MatchesOf(baseSymbolKeys, index), Select)
\* Mutation: the net profit without the costs of the two legs.
estimateNetProfitWithoutCosts(buy, sell) ==
  [netProfitPercent |-> ScaleDiv(sell.bid - buy.ask, buy.ask),
   grossArbitragePercent |-> ScaleDiv(sell.bid - buy.ask, buy.ask),
   estimatedCostsPercent |->
     TAKER_FEE_PERCENT(buy.exchange) + TAKER_FEE_PERCENT(sell.exchange)
     + estimateSlippagePercent(buy.spreadPercent)
     + estimateSlippagePercent(sell.spreadPercent) + TRANSFER_COST_PERCENT]

\* ------------------------------------------------------------------------
\* Cost model and pair evaluator
\* ------------------------------------------------------------------------
estimateNetProfitPercent(buy, sell) ==
  LET buyFee == TAKER_FEE_PERCENT(buy.exchange)
      sellFee == TAKER_FEE_PERCENT(sell.exchange)
      buySlippage == estimateSlippagePercent(buy.spreadPercent)
      sellSlippage == estimateSlippagePercent(sell.spreadPercent)
      buyCostPercent == buyFee + buySlippage + TRANSFER_COST_PERCENT \div 2
      sellCostPercent == sellFee + sellSlippage + TRANSFER_COST_PERCENT \div 2
      \* prices times 10000: 1 + c/100 with c in basis points is (10000 + c)/10000
      effectiveBuy == buy.ask * (10000 + buyCostPercent)
      effectiveSell == sell.bid * Max(0, 10000 - sellCostPercent)
  IN  [netProfitPercent |-> ScaleDiv(effectiveSell - effectiveBuy, effectiveBuy),
       grossArbitragePercent |-> ScaleDiv(sell.bid - buy.ask, buy.ask),
       estimatedCostsPercent |-> buyCostPercent + sellCostPercent]
\* Mutation: the pair with the highest gross arbitrage is kept.
PairStepByGross(candidates, p, best) ==
  LET n == Len(candidates)
      buy == candidates[((p - 1) \div n) + 1]
      sell == candidates[((p - 1) % n) + 1]
      Update(calc) ==
        IF best.bestNet = NegInfinity \/ calc.grossArbitragePercent > best.bestGross
          THEN [bestNet |-> calc.netProfitPercent,
                bestGross |-> calc.grossArbitragePercent,
                bestCosts |-> calc.estimatedCostsPercent,
                bestBuy |-> buy,
                bestSell |-> sell]
          ELSE best
  IN  IF buy.exchange = sell.exchange THEN best
      ELSE IF buy.quoteAsset # sell.quoteAsset THEN best
      ELSE With(estimateNetProfitPercent(buy, sell), Update)

\* Mutation: the same-exchange pairs are not skipped.
PairStepSameExchangeAllowed(candidates, p, best) ==
  LET n == Len(candidates)
      buy == candidates[((p - 1) \div n) + 1]
      sell == candidates[((p - 1) % n) + 1]
      Update(calc) ==
        IF calc.netProfitPercent > best.bestNet
          THEN [bestNet |-> calc.netProfitPercent,
                bestGross |-> calc.grossArbitragePercent,
                bestCosts |-> calc.estimatedCostsPercent,
                bestBuy |-> buy,
                bestSell |-> sell]
          ELSE best
  IN  IF buy.quoteAsset # sell.quoteAsset THEN best
      ELSE With(estimateNetProfitPercent(buy, sell), Update)

\* One iteration of the nested loop over (buy, sell), for the p-th ordered
\* pair in loop order; best is the loop state.
PairStep(candidates, p, best) ==
  LET n == Len(candidates)
      buy == candidates[((p - 1) \div n) + 1]
      sell == candidates[((p - 1) % n) + 1]
      Update(calc) ==
        IF calc.netProfitPercent > best.bestNet
          THEN [bestNet |-> calc.netProfitPercent,
                bestGross |-> calc.grossArbitragePercent,
                bestCosts |-> calc.estimatedCostsPercent,
                bestBuy |-> buy,
                bestSell |-> sell]
          ELSE best
  IN  IF buy.exchange = sell.exchange THEN best
      ELSE IF buy.quoteAsset # sell.quoteAsset THEN best
      ELSE With(estimateNetProfitPercent(buy, sell), Update)

\* The nested loop: all ordered pairs, in loop order, from the state init.
PairLoop(candidates, init) ==
  LET n == Len(candidates)
      loop[p \in 0..(n * n)] ==
        IF p = 0 THEN init
        ELSE LET Step(best) == PairStep(candidates, p, best)
             IN  With(loop[p - 1], Step)
  IN  loop[n * n]

\* Number.isFinite(bestNet)
IsFiniteNet(bestNet) == bestNet # NegInfinity
\* Mutation: the fallback net without Math.abs.
FallbackEstimateSigned(candidates) ==
  LET only == candidates[1]
      fallbackCosts == TAKER_FEE_PERCENT(only.exchange) * 2
                       + estimateSlippagePercent(only.spreadPercent) * 2
                       + TRANSFER_COST_PERCENT
  IN  [bestNet |-> -(fallbackCosts + only.spreadPercent),
       bestGross |-> -Abs(only.spreadPercent),
       bestCosts |-> fallbackCosts,
       bestBuy |-> only,
       bestSell |-> only]

FallbackEstimate(candidates) ==
  LET only == candidates[1]
      fallbackCosts == TAKER_FEE_PERCENT(only.exchange) * 2
                       + estimateSlippagePercent(only.spreadPercent) * 2
                       + TRANSFER_COST_PERCENT
  IN  [bestNet |-> -Abs(fallbackCosts + only.spreadPercent),
       bestGross |-> -Abs(only.spreadPercent),
       bestCosts |-> fallbackCosts,
       bestBuy |-> only,
       bestSell |-> only]

BestPair(candidates) ==
  LET init == [bestNet |-> NegInfinity, bestGross |-> NegInfinity, bestCosts |-> 0,
               bestBuy |-> candidates[1], bestSell |-> candidates[1]]
      Choose(looped) ==
        IF ~IsFiniteNet(looped.bestNet) THEN FallbackEstimate(candidates) ELSE looped
  IN  With(PairLoop(candidates, init), Choose)

\* ------------------------------------------------------------------------
\* Scorer
\* ------------------------------------------------------------------------
\* The reason texts, without the figures formatted into them; the exchange
\* labels (bestExchange, buyExchange, sellExchange) follow from the keys and
\* are left out of the records.
ReasonNoData == "Sem dados suficientes nas corretoras suportadas para calcular ranking."

ReasonGuaranteed == "Lucro conservador"

ReasonNotGuaranteed == "Sem lucro conservador garantido."

UnavailableAsset(name, symbol) ==
  [id |-> symbol, name |-> name, symbol |-> symbol,
   quoteAsset |-> "USDT", marketSymbol |-> <<symbol, "USDT">>,
   buyMarketSymbol |-> <<symbol, "USDT">>, sellMarketSymbol |-> <<symbol, "USDT">>,
   bestExchangeKey |-> "", buyExchangeKey |-> "", sellExchangeKey |-> "",
   latestPrice |-> 0,
   grossArbitragePercent |-> 0,
   netProfitPercent |-> -99900,
   guaranteedProfitPercent |-> -99900,
   guaranteedProfit |-> FALSE,
   estimatedCostsPercent |-> 0,
   averageSpreadPercent |-> 0,
   score |-> -99900,
   coverage |-> 0,
   reason |-> ReasonNoData,
   available |-> FALSE]
\* Mutation: the coverage test is dropped.
IsGuaranteedByProfitAlone(guaranteedProfitPercent, coverage, minCoverage) ==
  guaranteedProfitPercent > 0

IsGuaranteed(guaranteedProfitPercent, coverage, minCoverage) ==
  guaranteedProfitPercent > 0 /\ coverage >= minCoverage
\* Mutation: the mean of the signed spreads.
AverageSpreadSigned(candidates) ==
  SumSeq([i \in DOMAIN candidates |-> candidates[i].spreadPercent])
    \div Max(1, Len(candidates))

\* candidates.reduce((acc, item) => acc + Math.max(0, item.spreadPercent), 0)
\*   / Math.max(1, candidates.length)
AverageSpread(candidates) ==
  SumSeq([i \in DOMAIN candidates |-> Max(0, candidates[i].spreadPercent)])
    \div Max(1, Len(candidates))

\* cfg = [buffer, minCoverage]: the two guarantee knobs read at module load.
rankAssetFromCandidates(name, symbol, candidates, cfg) ==
  LET Ranked(best) ==
        LET avgSpread == AverageSpread(candidates)
            guaranteedProfitPercent == best.bestNet - cfg.buffer
            guaranteedProfit ==
              IsGuaranteed(guaranteedProfitPercent, Len(candidates), cfg.minCoverage)
            score == guaranteedProfitPercent + Len(candidates) * 35
                     - ((avgSpread * 35) \div 100)
        IN  [id |-> symbol, name |-> name, symbol |-> symbol,
             quoteAsset |-> best.bestSell.quoteAsset,
             marketSymbol |-> best.bestSell.marketSymbol,
             buyMarketSymbol |-> best.bestBuy.marketSymbol,
             sellMarketSymbol |-> best.bestSell.marketSymbol,
             bestExchangeKey |-> best.bestSell.exchange,
             buyExchangeKey |-> best.bestBuy.exchange,
             sellExchangeKey |-> best.bestSell.exchange,
             latestPrice |-> best.bestSell.last,
             grossArbitragePercent |-> best.bestGross,
             netProfitPercent |-> best.bestNet,
             guaranteedProfitPercent |-> guaranteedProfitPercent,
             guaranteedProfit |-> guaranteedProfit,
             estimatedCostsPercent |-> best.bestCosts,
             averageSpreadPercent |-> avgSpread,
             score |-> score,
             coverage |-> Len(candidates),
             reason |-> IF guaranteedProfit THEN ReasonGuaranteed ELSE ReasonNotGuaranteed,
             available |-> TRUE]
  IN  IF Len(candidates) = 0 THEN UnavailableAsset(name, symbol)
      ELSE With(BestPair(candidates), Ranked)

\* ------------------------------------------------------------------------
\* The ranking pipeline of GET (after the join): index, select, evaluate,
\* sort, rank.  snaps maps an exchange to Null or to a snapshot; exchanges
\* is the sequence of exchanges looped over (TOP_ASSETS_EXCHANGES in GET).
\* ------------------------------------------------------------------------
Null == [ok |-> FALSE, mercados |-> <<>>]

Snapshot(items) == [ok |-> TRUE, mercados |-> items]

KeysOf(asset) ==
  LET raw == <<asset.symbol>> \o asset.aliases
  IN  [k \in DOMAIN raw |-> normalizeSymbol(raw[k])] \o <<>>
\* Mutation: indexes are built only when every snapshot arrived (a join
\* that gives up on the first failure).
IndexesByExchangeAllOrNothing(exchanges, snaps) ==
  IF \A x \in Range(exchanges) : snaps[x].ok
    THEN Evaluated([e \in Range(exchanges) |-> buildMarketIndex(snaps[e].mercados)])
    ELSE <<>>

\* indexesByExchange: only the exchanges with a snapshot have an index.
IndexesByExchange(exchanges, snaps) ==
  Evaluated([e \in {x \in Range(exchanges) : snaps[x].ok} |->
               buildMarketIndex(snaps[e].mercados)])
\* Mutation: the loop over the exchanges breaks (instead of continuing) at
\* the first exchange without an index.
CandidatesOfUntilMissing(asset, exchanges, indexesByExchange) ==
  LET missing == {k \in DOMAIN exchanges : exchanges[k] \notin DOMAIN indexesByExchange}
      stop == IF missing = {} THEN Len(exchanges) + 1
              ELSE CHOOSE k \in missing : \A m \in missing : k <= m
      Collect(keys) ==
        FlattenSeq([k \in 1..(stop - 1) |->
           selectBestMarketForExchange(exchanges[k], keys,
                                       indexesByExchange[exchanges[k]])])
  IN  With(KeysOf(asset), Collect)

\* The candidates of one asset: for each exchange that has an index, in
\* order, the selected market if there is one.
CandidatesOf(asset, exchanges, indexesByExchange) ==
  LET Collect(keys) ==
        FlattenSeq([k \in DOMAIN exchanges |->
           IF exchanges[k] \in DOMAIN indexesByExchange
             THEN selectBestMarketForExchange(exchanges[k], keys,
                                              indexesByExchange[exchanges[k]])
             ELSE <<>>])
  IN  With(KeysOf(asset), Collect)
\* Mutation: the scores subtracted the other way round.
CompareRankedAscending(a, b) ==
  IF a.available # b.available
    THEN (IF a.available THEN -1 ELSE 1)
    ELSE a.score - b.score
\* Mutation: the availability test is dropped and the scores alone decide.
CompareRankedByScoreAlone(a, b) == b.score - a.score

CompareRanked(a, b) ==
  IF a.available # b.available
    THEN (IF a.available THEN -1 ELSE 1)
    ELSE b.score - a.score

WithRank(item, index) == item @@ [rank |-> index]
\* Mutation: the assets without a candidate are left out.
RankedBaseAvailableOnly(exchanges, snaps, cfg) ==
  LET IsAvailable(item) == item.available
      Base(indexes) ==
        SelectSeq(
          [i \in DOMAIN TOP_30_ASSET_UNIVERSE |->
             LET Rank(candidates) ==
                   rankAssetFromCandidates(TOP_30_ASSET_UNIVERSE[i].name,
                                           TOP_30_ASSET_UNIVERSE[i].symbol,
                                           candidates, cfg)
             IN  With(CandidatesOf(TOP_30_ASSET_UNIVERSE[i], exchanges, indexes), Rank)],
          IsAvailable)
  IN  With(IndexesByExchange(exchanges, snaps), Base)

RankedBase(exchanges, snaps, cfg) ==
  LET Base(indexes) ==
        [i \in DOMAIN TOP_30_ASSET_UNIVERSE |->
           LET Rank(candidates) ==
                 rankAssetFromCandidates(TOP_30_ASSET_UNIVERSE[i].name,
                                         TOP_30_ASSET_UNIVERSE[i].symbol,
                                         candidates, cfg)
           IN  With(CandidatesOf(TOP_30_ASSET_UNIVERSE[i], exchanges, indexes), Rank)]
        \o <<>>
  IN  With(IndexesByExchange(exchanges, snaps), Base)

RankedAssets(exchanges, snaps, cfg) ==
  LET Numbered(sorted) == [i \in DOMAIN sorted |-> WithRank(sorted[i], i)] \o <<>>
  IN  With(StableSort(RankedBase(exchanges, snaps, cfg), CompareRanked), Numbered)

\* An uncaught TypeError inside the pipeline: the handler rejects.
PipelineThrows(exchanges, snaps) ==
  \E e \in Range(exchanges) :
     /\ snaps[e].ok
     /\ \/ buildMarketIndexThrows(snaps[e].mercados)
        \/ \E index \in {buildMarketIndex(snaps[e].mercados)} :
             \E i \in DOMAIN TOP_30_ASSET_UNIVERSE :
                selectBestMarketThrows(KeysOf(TOP_30_ASSET_UNIVERSE[i]), index)

\* ------------------------------------------------------------------------
\* Upstream market-data payloads used as inputs
\* ------------------------------------------------------------------------
\* One entry of "mercados"; symbol is the pair <<base, quote>> standing for
\* the market symbol string.
Market(base, quote, ask, bid, last, spread) ==
  [symbol |-> <<base, quote>>, base_asset |-> base, quote_asset |-> quote,
   valor_atual |-> last, taxa_compra |-> ask, taxa_venda |-> bid,
   spread_percentual |-> spread]

\* What one GET /markets/{exchange} call can end as.
Outcome(kind, items) == [kind |-> kind, mercados |-> items]

Failed(kind) == Outcome(kind, <<>>)

Ok(items) == Outcome("ok", items)

\* fetchExchangeSnapshot: the payload when the call succeeded with a JSON body
\* that has a mercados array, null otherwise (it never rejects).
fetchExchangeSnapshot(outcome) ==
  IF outcome.kind = "ok" THEN Snapshot(outcome.mercados) ELSE Null

\* Failure kinds of one exchange fetch (all of them make the snapshot null).
FailureKinds ==
  {"timeout", "network error", "non-success status", "non-JSON body",
   "no mercados array"}

\* Payloads of the cache protocol specification: one well-formed list per
\* exchange, and lists with an entry that lacks base_asset or quote_asset.
GoodMercados(exchange) ==
  CASE exchange = "binance" ->
         << Market("BTC", "USDT", Num(2000), Num(1999), Num(2000), Num(5)),
            Market("ETH", "USDT", Num(300), Num(299), Num(300), Num(30)) >>
    [] exchange = "bybit" ->
         << Market("btc", "usdt", Num(2002), Num(2001), Num(2002), Num(5)) >>
    [] exchange = "okx" ->
         << Market("BTC", "USDT", Num(2041), Num(2040), Num(2040), Num(5)),
            Market("ETH", "EUR", Num(280), Num(279), Num(280), Num(40)) >>
    [] exchange = "kraken" ->
         << Market("BTC", "USDT", Num(2006), Num(2004), Num(2005), Num(10)) >>

\* An entry without base_asset.
MissingBaseMercados ==
  << Market(Undefined, "USDT", Num(2000), Num(1999), Num(2000), Num(5)) >>

\* An entry of a ranked asset without quote_asset.
MissingQuoteMercados ==
  << Market("BTC", Undefined, Num(2000), Num(1999), Num(2000), Num(5)) >>

AllOk == [e \in Range(TOP_ASSETS_EXCHANGES) |-> Ok(GoodMercados(e))]

\* The outcome vectors the upstream produces in the cache protocol
\* specification: all four exchanges answering; one failing, in each failure
\* kind; all four failing, in four different kinds; one answering a mercados
\* array with a malformed entry.
UpstreamScenarios ==
  { AllOk,
    [e \in Range(TOP_ASSETS_EXCHANGES) |->
       CASE e = "binance" -> Failed("timeout")
         [] e = "bybit" -> Failed("non-JSON body")
         [] e = "okx" -> Failed("no mercados array")
         [] e = "kraken" -> Failed("network error")],
    [AllOk EXCEPT !["binance"] = Ok(MissingBaseMercados)],
    [AllOk EXCEPT !["okx"] = Ok(MissingQuoteMercados),
                  !["kraken"] = Failed("timeout")] }
  \cup
  { [AllOk EXCEPT !["kraken"] = Failed(kind)] : kind \in FailureKinds }

\* Payloads of the ranking specification: per exchange, the payloads it may
\* answer (a failed fetch is Null).  They cover an alias and a lower-case
\* base asset, several quotes of one asset on one exchange, the same asset
\* under pairwise different quotes across exchanges, identical tickers of
\* two assets (equal scores), a profitable cross-exchange pair, negative and
\* very large spreads, fields that are zero, negative or not numbers, and
\* tickers of one asset and one quote that differ in the sign of the spread
\* or in having a numeric spread at all, and one asset priced four orders of
\* magnitude apart on two exchanges.
RankMercados(exchange) ==
  CASE exchange = "binance" ->
         { << Market("BTC", "USDT", Num(2000), Num(1999), Num(2000), Num(5)),
              Market("ETH", "USDT", Num(300), Num(299), Num(300), Num(30)),
              Market("XRP", "USDT", Num(100), Num(99), Num(100), Num(10)),
              Market("SOL", "USDT", Num(100), Num(99), Num(100), Num(10)),
              Market("BINANCECOIN", "USDT", Num(50), Num(49), Num(50), Num(20)),
              Market("ADA", "USDT", NotANumber, Num(4), Num(5), Num(10)) >>,
           << Market("BTC", "EUR", Num(1700), Num(1699), Num(1700), Num(2)),
              Market("BTC", "USDT", Num(1900), Num(1899), Num(1900), Num(5)),
              Market("ETH", "USDC", Num(300), Num(299), Num(300), Num(10)),
              Market("DOGE", "USDT", Num(10), Num(9), Num(10), Num(100000)),
              Market("XRP", "USDT", Num(100), Num(99), Num(100), Num(10)),
              Market("SOL", "USDT", Num(100), Num(99), Num(100), Num(10)) >>,
           << Market("BTC", "USDT", Num(2000), Num(1999), Num(2000), Num(-200)),
              Market("BTC", "USDT", Num(2000), Num(1990), Num(2000), Num(-200)),
              Market("USDe", "USDT", Num(20), Num(19), Num(20), Num(5)),
              Market("SOL", "USDT", Num(100), Num(99), Num(100), Num(10)),
              Market("LTC", "USDT", Num(40), Num(39), Num(40), Num(-200)) >> }
    [] exchange = "bybit" ->
         { << Market("btc", "usdt", Num(2002), Num(2001), Num(2002), Num(5)),
              Market("ETH", "USDT", Num(301), Num(300), Num(301), Num(20)),
              Market("XRP", "USDT", Num(100), Num(99), Num(100), Num(10)),
              Market("SOL", "USDT", Num(100), Num(99), Num(100), Num(10)) >>,
           << Market("BTC", "USDT", Num(2100), Num(2099), Num(2100), Num(5)),
              Market("ETH", "USDC", Num(310), Num(309), Num(310), Num(10)),
              Market("ADA", "USDC", Num(5), Num(4), Num(5), Num(10)) >>,
           << Market("BTC", "USDC", Num(2000), Num(1999), Num(2000), Num(5)),
              Market("DOGE", "EUR", Num(10), Num(9), Num(10), Num(10)),
              Market("ADA", "USDT", Num(5), Num(0), Num(5), Num(10)),
              Market("LTC", "USDT", Num(40), Num(39), Num(40), Num(-200)) >> }
    [] exchange = "okx" ->
         { << Market("BTC", "USDT", Num(2041), Num(2040), Num(2040), Num(5)),
              Market("ETH", "EUR", Num(280), Num(279), Num(280), Num(40)),
              Market("XRP", "USDT", Num(100), Num(99), Num(100), Num(10)) >>,
           << Market("BTC", "EUR", Num(1800), Num(1799), Num(1800), Num(5)),
              Market("DOGE", "USDC", Num(10), Num(9), Num(10), Num(10)),
              Market("ADA", "EUR", Num(5), Num(4), NotANumber, Num(10)) >>,
           << Market("BTC", "USDT", Num(2150), Num(2149), Num(2150), Num(5)),
              Market("BNB", "USDT", Num(60), Num(59), Num(60), Num(5)),
              Market("ETH", "USDT", Num(330), Num(329), Num(330), NotANumber),
              Market("SHIB", "USDT", Num(20000), Num(19999), Num(20000), Num(5)) >> }
    [] exchange = "kraken" ->
         { << Market("BTC", "USDT", Num(2006), Num(2004), Num(2005), Num(10)) >>,
           << Market("BTC", "USD", Num(2200), Num(2199), Num(2200), Num(5)),
              Market("DOGE", "USD", Num(10), Num(9), Num(10), Num(10)),
              Market("ADA", "USD", Num(5), Num(4), Num(5), Num(10)) >>,
           << Market("BTC", "USDT", Num(2200), Num(2190), Num(2200), Num(30000)),
              Market("ETH", "USDT", Num(320), Num(319), Num(320), Num(15)),
              Market("AVAX", "USDT", Num(80), Num(79), Num(80), Num(10)),
              Market("AVAX", "USDT", Num(81), Num(80), Num(81), Num(-50)),
              Market("SUI", "USDT", NotANumber, Num(19), Num(20), Num(5)),
              Market("SUI", "USDT", Num(20), Num(-1), Num(20), Num(5)),
              Market("SUI", "EUR", Num(18), Num(17), Num(18), Num(10)),
              Market("LINK", "USDT", Num(30), Num(29), Num(30), Num(5)),
              Market("LINK", "USDT", Num(31), Num(30), Num(31), NotANumber),
              Market("SHIB", "USDT", Num(2), Num(1), Num(1), Num(5)) >> }

\* The snapshots one exchange may hand to the pipeline.
RankSnapshots(exchange) ==
  {Null} \cup {Snapshot(items) : items \in RankMercados(exchange)}

\* ------------------------------------------------------------------------
\* State
\* ------------------------------------------------------------------------
VARIABLES
  env,              \* the environment knobs read at module load
  now,              \* Date.now(), ms
  cachedTopAssets,  \* the cache slot: NoEntry or [expiresAt, payload]
  req,              \* per GET request: position, its `now`, what its join returned
  resp,             \* per GET request: the response, once sent
  fetchLog,         \* per exchange: number of upstream calls issued so far
  slotWrites,       \* number of assignments to cachedTopAssets so far
  snapshots,        \* ranking specification: the snapshots to rank
  ranking,          \* ranking specification: the outcome of ranking them
  tradingDryRun,    \* DB service: process.env.TRADING_DRY_RUN
  orders,           \* DB service: per POST /trade/order, position and reply
  tradeActions,     \* DB service: the trade_actions row of each request
  placeOrderCalls,  \* DB service: per request, calls of placeOrder so far
  fetches,          \* join specification: per request and exchange, the fetch
  post,             \* paired order: the POST being handled, its input and reply
  legs,             \* paired order: per side, the callTradeOrder call
  orderbookCache,   \* order book: the module-level Map, key -> expiresAt
  book              \* order book: per GET, position, key and reply

siteVars == <<env, now, cachedTopAssets, req, resp, fetchLog, slotWrites,
              snapshots, ranking>>

tradeVars == <<tradingDryRun, orders, tradeActions, placeOrderCalls>>

joinVars == <<fetches>>

pairVars == <<post, legs>>

bookVars == <<orderbookCache, book>>

vars == <<siteVars, tradeVars, joinVars, pairVars, bookVars>>

\* ------------------------------------------------------------------------
\* DB service (DB/src/server.ts): TRADING_DRY_RUN.  A string is the sequence
\* of its characters; an environment variable is <<>> when unset and <<s>>
\* when set to the string s.
\* ------------------------------------------------------------------------
UpperCaseLetters ==
  <<"A", "B", "C", "D", "E", "F", "G", "H", "I", "J", "K", "L", "M",
    "N", "O", "P", "Q", "R", "S", "T", "U", "V", "W", "X", "Y", "Z">>

LowerCaseLetters ==
  <<"a", "b", "c", "d", "e", "f", "g", "h", "i", "j", "k", "l", "m",
    "n", "o", "p", "q", "r", "s", "t", "u", "v", "w", "x", "y", "z">>

WhiteSpace == {" ", "\t", "\n"}

\* String.prototype.toLowerCase, one character
toLowerCaseChar(c) ==
  IF \E k \in DOMAIN UpperCaseLetters : UpperCaseLetters[k] = c
    THEN LowerCaseLetters[CHOOSE k \in DOMAIN UpperCaseLetters : UpperCaseLetters[k] = c]
    ELSE c

toLowerCase(s) == [k \in DOMAIN s |-> toLowerCaseChar(s[k])]

RECURSIVE trimStart(_)
trimStart(s) ==
  IF s # <<>> /\ Head(s) \in WhiteSpace THEN trimStart(Tail(s)) ELSE s

RECURSIVE trimEnd(_)
trimEnd(s) ==
  IF s # <<>> /\ s[Len(s)] \in WhiteSpace
    THEN trimEnd(SubSeq(s, 1, Len(s) - 1))
    ELSE s

\* String.prototype.trim
trim(s) == trimEnd(trimStart(s))

TrueTokens ==
  { <<"1">>, <<"t", "r", "u", "e">>, <<"y", "e", "s">>, <<"y">>, <<"o", "n">> }

FalseTokens ==
  { <<"0">>, <<"f", "a", "l", "s", "e">>, <<"n", "o">>, <<"n">>, <<"o", "f", "f">> }

\* optionalEnv: process.env[name] ?? null
optionalEnv(value) == value

\* Mutation: only a recognised true token enables.
parseBooleanEnvTrueTokensOnly(raw, defaultValue) ==
  raw # <<>> /\ toLowerCase(trim(raw[1])) \in TrueTokens

\* parseBooleanEnv: !raw is true of null and of the empty string.
parseBooleanEnv(raw, defaultValue) ==
  IF raw = <<>> \/ raw[1] = <<>> THEN defaultValue
  ELSE LET normalized == toLowerCase(trim(raw[1]))
       IN  IF normalized \in TrueTokens THEN TRUE
           ELSE IF normalized \in FalseTokens THEN FALSE
           ELSE defaultValue

isDryRunEnabled(envDryRun) == parseBooleanEnv(optionalEnv(envDryRun), TRUE)

Orders == 1..MaxOrders

\* The position of one POST /trade/order and what it answered (code 0: not
\* answered yet); accepted: it passed requireUserId and OrderSchema.parse;
\* placed: how its call of placeOrder ended ("none": not called); dbFailed:
\* one of its database writes failed.
IdleOrder == [pc |-> "idle", accepted |-> FALSE, dryRun |-> FALSE,
              code |-> 0, status |-> "none", placed |-> "none",
              dbFailed |-> FALSE]

NoTradeAction == "none"

TradeServiceIdle ==
  /\ tradingDryRun = <<>>
  /\ orders = [q \in Orders |-> IdleOrder]
  /\ tradeActions = [q \in Orders |-> NoTradeAction]
  /\ placeOrderCalls = [q \in Orders |-> 0]

Requests == 1..MaxRequests

Exchanges == Range(TOP_ASSETS_EXCHANGES)

\* No fetch of any request has been started.
JoinIdle == fetches = [r \in Requests |-> [e \in Exchanges |-> "idle"]]
\* Paired order (app/api/chart/route.ts, POST): the two sides, a side with no
\* call made, and the handler before a request arrived.
Sides == {"BUY", "SELL"}

NoLeg == [status |-> "none", exchange |-> <<>>, symbol |-> <<>>, amount |-> 0]

IdlePost == [pc |-> "idle", input |-> <<>>, code |-> 0, ok |-> FALSE]

PairIdle == post = IdlePost /\ legs = [s \in Sides |-> NoLeg]

\* Order book (app/api/orderbook/route.ts, GET): the handler before a
\* request arrived; the Map is empty when the module is loaded.
BookRequests == 1..MaxBookRequests

IdleBook ==
  [pc |-> "idle", key |-> <<>>, now |-> 0, code |-> 0, hit |-> FALSE,
   servedExpiry |-> 0, sizeBefore |-> 0, known |-> FALSE, sizeAfter |-> 0]

BookIdle == orderbookCache = <<>> /\ book = [r \in BookRequests |-> IdleBook]

NoEntry == <<>>

NoResponse == [status |-> 0, payload |-> <<>>]

NoSnapshots == [e \in Exchanges |-> Null]

\* Bookkeeping of one request.  writesSeen / slotSeen: the number of slot
\* assignments so far and the slot, when the request read the clock;
\* writesAfter: the number of slot assignments when it answered; servedExpiry:
\* the expiresAt of the entry whose payload it answered with (0: none).
IdleRequest ==
  [pc |-> "idle", now |-> 0, hit |-> FALSE, writesSeen |-> 0,
   slotSeen |-> NoEntry, snapshots |-> NoSnapshots, writesAfter |-> 0,
   servedExpiry |-> 0]
\* Mutation: the expiry instant itself still counts as fresh.
CacheIsFreshAtExpiry(entry, t) == entry # NoEntry /\ entry.expiresAt >= t

\* Mutation: the comparison the wrong way round.
CacheIsFreshReversed(entry, t) == entry # NoEntry /\ entry.expiresAt < t

\* cachedTopAssets && cachedTopAssets.expiresAt > now
CacheIsFresh(entry, t) == entry # NoEntry /\ entry.expiresAt > t

\* What each exchange answered to one request, by exchange.
UpstreamSnapshots(outcomes) ==
  [e \in Exchanges |-> fetchExchangeSnapshot(outcomes[e])]

\* The orders in which the four fetches of one request may complete
\* (positions in TOP_ASSETS_EXCHANGES): in the order issued, or reversed.
SettleOrders == { <<1, 2, 3, 4>>, <<4, 3, 2, 1>> }

PositionOf(exchange) ==
  CHOOSE k \in DOMAIN TOP_ASSETS_EXCHANGES : TOP_ASSETS_EXCHANGES[k] = exchange

\* Mutation: the results are collected in the order the fetches completed,
\* and still read by position.
SettledInCompletionOrder(outcomes, order) ==
  [e \in Exchanges |->
     fetchExchangeSnapshot(outcomes[TOP_ASSETS_EXCHANGES[order[PositionOf(e)]]])]

\* Promise.allSettled + settled.map(item => item.status === "fulfilled" ?
\* item.value : null): every fetchExchangeSnapshot promise fulfils, with the
\* snapshot or null, and the result array is by position in
\* TOP_ASSETS_EXCHANGES whatever the order of completion.
SettledSnapshots(outcomes, order) ==
  [e \in Exchanges |-> fetchExchangeSnapshot(outcomes[e])]

\* The part of GET after the join, as a function of the snapshots: the
\* ranked assets, or an uncaught exception (answered 500 by the framework).
Pipeline(exchanges, snaps, cfg) ==
  IF PipelineThrows(exchanges, snaps)
    THEN [threw |-> TRUE, assets |-> <<>>]
    ELSE [threw |-> FALSE, assets |-> RankedAssets(exchanges, snaps, cfg)]

CfgOf(e) == [buffer |-> GUARANTEE_SAFETY_BUFFER_PERCENT(e.buffer),
             minCoverage |-> GUARANTEE_MIN_COVERAGE(e.minCoverage)]

\* The environment of the cache protocol specification: a TTL below the
\* minimum (so 3000 ms is used), the guarantee knobs unset.
ProtocolEnvs == [ttl : {<<1000>>}, buffer : {<<>>}, minCoverage : {<<>>}]

ProtocolSnapshots ==
  {SettledSnapshots(o, order) : o \in UpstreamScenarios, order \in SettleOrders}

\* Pipeline over the inputs of the cache protocol specification, tabulated.
ProtocolPipeline ==
  Evaluated([e \in ProtocolEnvs |->
     Evaluated([snaps \in ProtocolSnapshots |->
        Pipeline(TOP_ASSETS_EXCHANGES, snaps, CfgOf(e))])])

\* ------------------------------------------------------------------------
\* Cache protocol specification: GET requests over the shared slot
\* ------------------------------------------------------------------------
Init ==
  /\ env \in ProtocolEnvs
  /\ now = 0
  /\ cachedTopAssets = NoEntry
  /\ req = [r \in Requests |-> IdleRequest]
  /\ resp = [r \in Requests |-> NoResponse]
  /\ fetchLog = [e \in Range(SUPPORTED_EXCHANGES) |-> 0]
  /\ slotWrites = 0
  /\ snapshots = NoSnapshots
  /\ ranking = <<>>
  /\ TradeServiceIdle
  /\ JoinIdle
  /\ PairIdle
  /\ BookIdle

Tick ==
  /\ now < MaxTicks * 1000
  /\ now' = now + 1000
  /\ UNCHANGED <<env, cachedTopAssets, req, resp, fetchLog, slotWrites,
                 snapshots, ranking, tradeVars, joinVars, pairVars, bookVars>>
\* Mutation: one fetch per supported exchange, coinbase included.
IssueFetchesToSupported(log, exchanges) ==
  [e \in DOMAIN log |-> log[e] + 1]

\* TOP_ASSETS_EXCHANGES.map((exchange) => fetchExchangeSnapshot(exchange)):
\* one call of fetch per exchange of the list (fetchExchangeSnapshot calls
\* fetch once and has no retry).
IssueFetches(log, exchanges) ==
  [e \in DOMAIN log |->
     log[e] + Cardinality({k \in DOMAIN exchanges : exchanges[k] = e})]

\* GET up to the await: read the clock, answer from the slot or fan out one
\* fetch per exchange.  (Requests are numbered in the order they arrive.)
GetStart(r) ==
  /\ req[r].pc = "idle"
  /\ (IF r = 1 THEN TRUE ELSE req[r - 1].pc # "idle")
  /\ IF CacheIsFresh(cachedTopAssets, now)
       THEN /\ req' = [req EXCEPT ![r] = [@ EXCEPT !.pc = "done", !.now = now,
                                                  !.hit = TRUE,
                                                  !.writesSeen = slotWrites,
                                                  !.slotSeen = cachedTopAssets,
                                                  !.writesAfter = slotWrites,
                                                  !.servedExpiry = cachedTopAssets.expiresAt]]
            /\ resp' = [resp EXCEPT ![r] = [status |-> 200,
                                            payload |-> cachedTopAssets.payload]]
            /\ UNCHANGED fetchLog
       ELSE /\ req' = [req EXCEPT ![r] = [@ EXCEPT !.pc = "fetching", !.now = now,
                                                  !.writesSeen = slotWrites,
                                                  !.slotSeen = cachedTopAssets]]
            /\ fetchLog' = IssueFetches(fetchLog, TOP_ASSETS_EXCHANGES)
            /\ UNCHANGED resp
  /\ UNCHANGED <<env, now, cachedTopAssets, slotWrites, snapshots, ranking, tradeVars, joinVars, pairVars, bookVars>>
\* Mutation: the expiry counted from the completion of the request.
CacheEntryFromCompletion(r, payload) ==
  [expiresAt |-> now + TOP_ASSETS_CACHE_TTL_MS(env.ttl), payload |-> payload]

\* Mutation: the slot is updated field by field, the expiry only ever
\* moving forward.
CacheEntryKeepingLaterExpiry(r, payload) ==
  [expiresAt |-> IF cachedTopAssets = NoEntry
                   THEN req[r].now + TOP_ASSETS_CACHE_TTL_MS(env.ttl)
                   ELSE Max(cachedTopAssets.expiresAt,
                            req[r].now + TOP_ASSETS_CACHE_TTL_MS(env.ttl)),
   payload |-> payload]

\* { expiresAt: now + TOP_ASSETS_CACHE_TTL_MS, payload }: the value request
\* r assigns to the slot, now being the clock r read when it started.
CacheEntry(r, payload) ==
  [expiresAt |-> req[r].now + TOP_ASSETS_CACHE_TTL_MS(env.ttl),
   payload |-> payload]

\* GET after the await: Promise.allSettled hands over one result per
\* exchange; rank, build the payload, replace the slot, answer.  An exception
\* thrown by the pipeline leaves the slot alone and the framework answers 500.
GetFinish(r) ==
  /\ req[r].pc = "fetching"
  /\ \E outcomes \in UpstreamScenarios, order \in SettleOrders :
       \E snaps \in {SettledSnapshots(outcomes, order)} :
         \E result \in {ProtocolPipeline[env][snaps]} :
           \E payload \in {[generatedAt |-> now,
                            total |-> Len(result.assets),
                            assets |-> result.assets]} :
             IF result.threw
               THEN /\ req' = [req EXCEPT ![r] = [@ EXCEPT !.pc = "done",
                                                          !.snapshots = UpstreamSnapshots(outcomes),
                                                          !.writesAfter = slotWrites]]
                    /\ resp' = [resp EXCEPT ![r] = [status |-> 500, payload |-> <<>>]]
                    /\ UNCHANGED <<cachedTopAssets, slotWrites>>
               ELSE /\ req' = [req EXCEPT ![r] =
                                 [@ EXCEPT !.pc = "done",
                                           !.snapshots = UpstreamSnapshots(outcomes),
                                           !.writesAfter = slotWrites + 1,
                                           !.servedExpiry =
                                              req[r].now + TOP_ASSETS_CACHE_TTL_MS(env.ttl)]]
                    /\ cachedTopAssets' = CacheEntry(r, payload)
                    /\ slotWrites' = slotWrites + 1
                    /\ resp' = [resp EXCEPT ![r] = [status |-> 200, payload |-> payload]]
  /\ UNCHANGED <<env, now, fetchLog, snapshots, ranking, tradeVars, joinVars, pairVars, bookVars>>

Next ==
  \/ Tick
  \/ \E r \in Requests : GetStart(r)
  \/ \E r \in Requests : GetFinish(r)

Spec == Init /\ [][Next]_vars

\* ------------------------------------------------------------------------
\* Ranking specification: the pipeline of GET applied to given snapshots
\* ------------------------------------------------------------------------
\* The guarantee knobs: unset (0.35 % and 3), a zero buffer with a minimum
\* coverage of 2, a negative buffer with a minimum coverage of 1.
RankEnvs ==
  { [ttl |-> <<>>, buffer |-> <<>>, minCoverage |-> <<>>],
    [ttl |-> <<>>, buffer |-> <<0>>, minCoverage |-> <<2>>],
    [ttl |-> <<>>, buffer |-> <<-100>>, minCoverage |-> <<1>>] }

InitRank ==
  /\ env \in RankEnvs
  /\ now = 0
  /\ cachedTopAssets = NoEntry
  /\ req = [r \in Requests |-> IdleRequest]
  /\ resp = [r \in Requests |-> NoResponse]
  /\ fetchLog = [e \in Range(SUPPORTED_EXCHANGES) |-> 0]
  /\ slotWrites = 0
  /\ snapshots \in [Exchanges -> UNION {RankSnapshots(e) : e \in Exchanges}]
  /\ \A e \in Exchanges : snapshots[e] \in RankSnapshots(e)
  /\ ranking = <<>>
  /\ TradeServiceIdle
  /\ JoinIdle
  /\ PairIdle
  /\ BookIdle

\* The part of GET after the join, applied to the snapshots.  candidates:
\* per asset of the universe (in universe order), the candidates handed to
\* rankAssetFromCandidates; assets: rankedAssets; status: 200, or 500 when
\* the pipeline threw.
Rank ==
  /\ ranking = <<>>
  /\ \E result \in {Pipeline(TOP_ASSETS_EXCHANGES, snapshots, CfgOf(env))} :
       ranking' =
         [status |-> IF result.threw THEN 500 ELSE 200,
          assets |-> result.assets,
          candidates |->
            With(IndexesByExchange(TOP_ASSETS_EXCHANGES, snapshots),
                 LAMBDA indexes :
                   [i \in DOMAIN TOP_30_ASSET_UNIVERSE |->
                      CandidatesOf(TOP_30_ASSET_UNIVERSE[i], TOP_ASSETS_EXCHANGES, indexes)]
                   \o <<>>)]
  /\ UNCHANGED <<env, now, cachedTopAssets, req, resp, fetchLog, slotWrites,
                 snapshots, tradeVars, joinVars, pairVars, bookVars>>

NextRank == Rank

SpecRank == InitRank /\ [][NextRank]_vars

\* ------------------------------------------------------------------------
\* Trading specification: POST /trade/order of the DB service, each request
\* split at its awaits, under every setting of TRADING_DRY_RUN below
\* ------------------------------------------------------------------------
\* unset, "", " ", the false tokens in several spellings, the true tokens,
\* and strings that are neither.
TradingDryRunValues ==
  { <<>>,
    << <<>> >>,
    << <<" ">> >>,
    << <<"f", "a", "l", "s", "e">> >>,
    << <<"F", "A", "L", "S", "E">> >>,
    << <<" ", "F", "a", "l", "s", "e", "\n">> >>,
    << <<"0">> >>,
    << <<"n", "o">> >>,
    << <<"N">> >>,
    << <<"\t", "O", "f", "f">> >>,
    << <<"t", "r", "u", "e">> >>,
    << <<"1">> >>,
    << <<"Y", "E", "S">> >>,
    << <<"y">> >>,
    << <<"o", "n">> >>,
    << <<"f">> >>,
    << <<"n", "a", "o">> >>,
    << <<"f", "a", "l", " ", "s", "e">> >>,
    << <<"0", "0">> >>,
    << <<"d", "i", "s", "a", "b", "l", "e", "d">> >>,
    << <<"n", "u", "l", "l">> >> }

InitTrade ==
  /\ env \in ProtocolEnvs
  /\ now = 0
  /\ cachedTopAssets = NoEntry
  /\ req = [r \in Requests |-> IdleRequest]
  /\ resp = [r \in Requests |-> NoResponse]
  /\ fetchLog = [e \in Range(SUPPORTED_EXCHANGES) |-> 0]
  /\ slotWrites = 0
  /\ snapshots = NoSnapshots
  /\ ranking = <<>>
  /\ tradingDryRun \in TradingDryRunValues
  /\ orders = [q \in Orders |-> IdleOrder]
  /\ tradeActions = [q \in Orders |-> NoTradeAction]
  /\ placeOrderCalls = [q \in Orders |-> 0]
  /\ JoinIdle
  /\ PairIdle
  /\ BookIdle

Answer(q, code, status) ==
  orders' = [orders EXCEPT ![q] = [@ EXCEPT !.pc = "done", !.code = code,
                                            !.status = status]]

Goto(q, pc) == orders' = [orders EXCEPT ![q] = [@ EXCEPT !.pc = pc]]

\* requireUserId, OrderSchema.parse, isDryRunEnabled: a bad token or a bad
\* body throws to the outer catch.
OrderReceive(q) ==
  /\ orders[q].pc = "idle"
  /\ \E authorized \in BOOLEAN, wellFormed \in BOOLEAN :
       IF authorized /\ wellFormed
         THEN orders' = [orders EXCEPT ![q] =
                           [@ EXCEPT !.pc = "insert", !.accepted = TRUE,
                                     !.dryRun = isDryRunEnabled(tradingDryRun)]]
         ELSE Goto(q, "recover")
  /\ UNCHANGED <<siteVars, joinVars, pairVars, bookVars, tradingDryRun, tradeActions, placeOrderCalls>>

\* insertTradeAction with status DRY_RUN or PENDING, then the dry-run
\* answer; an insert that fails throws to the outer catch.
OrderInsert(q) ==
  /\ orders[q].pc = "insert"
  /\ \E inserted \in BOOLEAN :
       IF ~inserted
         THEN /\ orders' = [orders EXCEPT ![q] = [@ EXCEPT !.pc = "recover",
                                                           !.dbFailed = TRUE]]
              /\ UNCHANGED tradeActions
         ELSE /\ tradeActions' =
                   [tradeActions EXCEPT ![q] =
                      IF orders[q].dryRun THEN "DRY_RUN" ELSE "PENDING"]
              /\ IF orders[q].dryRun
                   THEN Answer(q, 200, "DRY_RUN")
                   ELSE Goto(q, "place")
  /\ UNCHANGED <<siteVars, joinVars, pairVars, bookVars, tradingDryRun, placeOrderCalls>>

\* placeOrder: the order goes to the exchange, and is accepted or not.
OrderPlace(q) ==
  /\ orders[q].pc = "place"
  /\ placeOrderCalls' = [placeOrderCalls EXCEPT ![q] = @ + 1]
  /\ \E placed \in BOOLEAN :
       orders' = [orders EXCEPT ![q] =
                    [@ EXCEPT !.pc = IF placed THEN "executed" ELSE "failed",
                              !.placed = IF placed THEN "returned" ELSE "threw"]]
  /\ UNCHANGED <<siteVars, joinVars, pairVars, bookVars, tradingDryRun, tradeActions>>

\* updateTradeAction EXECUTED (a failure goes to the inner catch) or FAILED
\* (a failure goes to the outer catch), then the answer.
OrderUpdate(q) ==
  /\ orders[q].pc \in {"executed", "failed"}
  /\ \E updated \in BOOLEAN :
       IF updated
         THEN IF orders[q].pc = "executed"
                THEN /\ tradeActions' = [tradeActions EXCEPT ![q] = "EXECUTED"]
                     /\ Answer(q, 200, "EXECUTED")
                ELSE /\ tradeActions' = [tradeActions EXCEPT ![q] = "FAILED"]
                     /\ Answer(q, 500, "FAILED")
         ELSE /\ UNCHANGED tradeActions
              /\ orders' = [orders EXCEPT ![q] =
                              [@ EXCEPT !.pc = IF orders[q].pc = "executed"
                                                 THEN "failed" ELSE "recover",
                                        !.dbFailed = TRUE]]
  /\ UNCHANGED <<siteVars, joinVars, pairVars, bookVars, tradingDryRun, placeOrderCalls>>

\* The outer catch: a best-effort FAILED record (the insert fails when the
\* request already has its row, id being the primary key; any failure is
\* ignored), then 400.
OrderRecover(q) ==
  /\ orders[q].pc = "recover"
  /\ \E recorded \in BOOLEAN :
       tradeActions' = [tradeActions EXCEPT ![q] =
                          IF recorded /\ @ = NoTradeAction THEN "FAILED" ELSE @]
  /\ Answer(q, 400, "none")
  /\ UNCHANGED <<siteVars, joinVars, pairVars, bookVars, tradingDryRun, placeOrderCalls>>

NextTrade ==
  \/ \E q \in Orders : OrderReceive(q)
  \/ \E q \in Orders : OrderInsert(q)
  \/ \E q \in Orders : OrderPlace(q)
  \/ \E q \in Orders : OrderUpdate(q)
  \/ \E q \in Orders : OrderRecover(q)

SpecTrade == InitTrade /\ [][NextTrade]_vars

\* ------------------------------------------------------------------------
\* Join specification: GET with each fetchExchangeSnapshot promise settling
\* on its own (answer, failure, or its 8 s timeout), the clock advancing in
\* steps of half the timeout.  fetches[r][e] is "idle", "pending", "ok" (the
\* exchange's payload arrived) or "null".
\* ------------------------------------------------------------------------
FETCH_TIMEOUT_MS == 8000

JoinTickMs == FETCH_TIMEOUT_MS \div 2

JoinRequests == 1..MaxJoinRequests

\* Mutation: the join resolves with the first fetch that settles.
JoinSettledAny(r) == \E e \in Exchanges : fetches[r][e] \in {"ok", "null"}

\* Promise.allSettled resolves when every promise has settled.
JoinSettled(r) == \A e \in Exchanges : fetches[r][e] \in {"ok", "null"}

\* settled.map(...): the snapshots of request r, by exchange.
JoinSnapshots(r) ==
  [e \in Exchanges |->
     IF fetches[r][e] = "ok" THEN Snapshot(GoodMercados(e)) ELSE Null]

\* Pipeline over the snapshot vectors of the join specification, tabulated
\* by the set of exchanges that answered.
JoinPipeline ==
  Evaluated([answered \in SUBSET Exchanges |->
     Pipeline(TOP_ASSETS_EXCHANGES,
              [e \in Exchanges |->
                 IF e \in answered THEN Snapshot(GoodMercados(e)) ELSE Null],
              CfgOf(CHOOSE e \in ProtocolEnvs : TRUE))])

InitJoin ==
  /\ env \in ProtocolEnvs
  /\ now = 0
  /\ cachedTopAssets = NoEntry
  /\ req = [r \in Requests |-> IdleRequest]
  /\ resp = [r \in Requests |-> NoResponse]
  /\ fetchLog = [e \in Range(SUPPORTED_EXCHANGES) |-> 0]
  /\ slotWrites = 0
  /\ snapshots = NoSnapshots
  /\ ranking = <<>>
  /\ TradeServiceIdle
  /\ JoinIdle
  /\ PairIdle
  /\ BookIdle

\* Time passes, but not beyond the timeout of a pending fetch (its abort
\* signal fires first), and not while a settled join waits to continue (the
\* continuation runs at once).
JoinTick ==
  /\ now < MaxJoinTicks * JoinTickMs
  /\ \A r \in JoinRequests :
       req[r].pc = "fetching" =>
         /\ ~JoinSettled(r)
         /\ (\E e \in Exchanges : fetches[r][e] = "pending")
              => now + JoinTickMs <= req[r].now + FETCH_TIMEOUT_MS
  /\ now' = now + JoinTickMs
  /\ UNCHANGED <<env, cachedTopAssets, req, resp, fetchLog, slotWrites,
                 snapshots, ranking, tradeVars, joinVars, pairVars, bookVars>>

\* GET up to its await: the freshness test, then every fetch is started.
JoinStart(r) ==
  /\ req[r].pc = "idle"
  /\ (IF r = 1 THEN TRUE ELSE req[r - 1].pc # "idle")
  /\ IF CacheIsFresh(cachedTopAssets, now)
       THEN /\ req' = [req EXCEPT ![r] = [@ EXCEPT !.pc = "done", !.now = now,
                                                  !.hit = TRUE,
                                                  !.writesSeen = slotWrites,
                                                  !.slotSeen = cachedTopAssets,
                                                  !.writesAfter = slotWrites,
                                                  !.servedExpiry = cachedTopAssets.expiresAt]]
            /\ resp' = [resp EXCEPT ![r] = [status |-> 200,
                                            payload |-> cachedTopAssets.payload]]
            /\ UNCHANGED <<fetchLog, fetches>>
       ELSE /\ req' = [req EXCEPT ![r] = [@ EXCEPT !.pc = "fetching", !.now = now,
                                                  !.writesSeen = slotWrites,
                                                  !.slotSeen = cachedTopAssets]]
            /\ fetchLog' = IssueFetches(fetchLog, TOP_ASSETS_EXCHANGES)
            /\ fetches' = [fetches EXCEPT ![r] = [e \in Exchanges |-> "pending"]]
            /\ UNCHANGED resp
  /\ UNCHANGED <<env, now, cachedTopAssets, slotWrites, snapshots, ranking, tradeVars, pairVars, bookVars>>

\* One fetchExchangeSnapshot promise fulfils: with the payload, or with null
\* (non-success status, bad body, network error, or the timeout, which is
\* the only outcome left once the 8 s have passed).
FetchSettle(r, e) ==
  /\ req[r].pc = "fetching"
  /\ fetches[r][e] = "pending"
  /\ \E outcome \in {"ok", "null"} :
       /\ (now >= req[r].now + FETCH_TIMEOUT_MS) => outcome = "null"
       /\ fetches' = [fetches EXCEPT ![r][e] = outcome]
  /\ UNCHANGED <<siteVars, tradeVars, pairVars, bookVars>>

\* GET after its await: index, select, rank, store, answer.
JoinFinish(r) ==
  /\ req[r].pc = "fetching"
  /\ JoinSettled(r)
  /\ \E result \in {JoinPipeline[{e \in Exchanges : fetches[r][e] = "ok"}]} :
       \E payload \in {[generatedAt |-> now,
                        total |-> Len(result.assets),
                        assets |-> result.assets]} :
         /\ req' = [req EXCEPT ![r] =
                      [@ EXCEPT !.pc = "done",
                                !.snapshots = JoinSnapshots(r),
                                !.writesAfter = slotWrites + 1,
                                !.servedExpiry =
                                   req[r].now + TOP_ASSETS_CACHE_TTL_MS(env.ttl)]]
         /\ cachedTopAssets' = CacheEntry(r, payload)
         /\ slotWrites' = slotWrites + 1
         /\ resp' = [resp EXCEPT ![r] = [status |-> 200, payload |-> payload]]
  /\ UNCHANGED <<env, now, fetchLog, snapshots, ranking, tradeVars, joinVars, pairVars, bookVars>>

NextJoin ==
  \/ JoinTick
  \/ \E r \in JoinRequests : JoinStart(r)
  \/ \E r \in JoinRequests, e \in Exchanges : FetchSettle(r, e)
  \/ \E r \in JoinRequests : JoinFinish(r)

\* Every started fetch settles (the exchange answers, the connection fails,
\* or the abort signal fires) and the continuation of a settled join runs.
SpecJoin ==
  /\ InitJoin /\ [][NextJoin]_vars
  /\ \A r \in JoinRequests :
       /\ WF_vars(JoinFinish(r))
       /\ \A e \in Exchanges : WF_vars(FetchSettle(r, e))

\* ========================================================================
\* Properties
\* ========================================================================
Done(r) == req[r].pc = "done"

Ttl == TOP_ASSETS_CACHE_TTL_MS(env.ttl)

\* ------------------------------------------------------------------------
\* Cache protocol (specification Spec)
\* ------------------------------------------------------------------------

\* C1, as stated: any two calls answered 200 whose start times are less than
\* one TTL apart carry the same payload (generatedAt and assets).  Two calls
\* that both miss the cache at overlapping times refute it.
C1_SameWithinTtlWindow ==
  \A a, b \in Requests :
    (Done(a) /\ Done(b) /\ resp[a].status = 200 /\ resp[b].status = 200
       /\ Abs(req[a].now - req[b].now) < Ttl)
    => resp[a].payload = resp[b].payload

\* C1, amended: (1) a call that reads the slot as a call answered 200 left
\* it (no assignment to the slot in between) and starts before the expiresAt
\* of the entry that call answered with is a cache hit and carries the same
\* payload (generatedAt and assets); (2) a call that finds the slot absent,
\* or finds it with expiresAt <= its now, is no hit: it runs a fresh
\* computation, whose generatedAt is not before its start; (3) each
\* computation issues one fetch per exchange of TOP_ASSETS_EXCHANGES (and
\* none to coinbase), and a hit issues none.
C1_CacheWindow ==
  /\ \A a, b \in Requests :
       (a # b /\ Done(a) /\ Done(b) /\ resp[a].status = 200
          /\ req[b].writesSeen = req[a].writesAfter
          /\ req[b].now < req[a].servedExpiry)
       => (req[b].hit /\ resp[b].status = 200 /\ resp[b].payload = resp[a].payload)
  /\ \A b \in Requests :
       (req[b].pc # "idle"
          /\ (req[b].slotSeen = NoEntry \/ req[b].slotSeen.expiresAt <= req[b].now))
       => /\ ~req[b].hit
          /\ (Done(b) /\ resp[b].status = 200)
               => resp[b].payload.generatedAt >= req[b].now
  /\ \A e \in DOMAIN fetchLog :
       fetchLog[e] = IF e \in Exchanges
                       THEN Cardinality({r \in Requests : req[r].pc # "idle" /\ ~req[r].hit})
                       ELSE 0

\* A call computed the payload, and a later call, started before the entry
\* expired, was answered from the slot with the same generatedAt and assets.
C1_Witness ==
  \E a, b \in Requests :
    /\ Done(a) /\ ~req[a].hit /\ resp[a].status = 200
    /\ Done(b) /\ req[b].hit
    /\ req[b].now > req[a].now
    /\ req[b].now < req[a].servedExpiry
    /\ resp[b].payload.generatedAt = resp[a].payload.generatedAt
    /\ resp[b].payload.assets = resp[a].payload.assets

\* C2: a request that reads the clock while the slot is present with
\* expiresAt strictly greater than now answers at once, with status 200 and
\* the cached payload, issues no exchange fetch, and leaves the slot (and the
\* count of its assignments) unchanged.
C2_HitHasNoEffects ==
  [][\A r \in Requests :
       (req[r].pc = "idle" /\ req'[r].pc # "idle"
          /\ cachedTopAssets # NoEntry /\ cachedTopAssets.expiresAt > now)
       => /\ req'[r].pc = "done"
          /\ resp'[r] = [status |-> 200, payload |-> cachedTopAssets.payload]
          /\ fetchLog' = fetchLog
          /\ cachedTopAssets' = cachedTopAssets
          /\ slotWrites' = slotWrites]_vars

\* A request was answered from the slot: one computation has fetched each
\* exchange once, the hit fetched nothing, and the slot still holds the
\* payload it answered with.
C2_Witness ==
  \E r \in Requests :
    /\ Done(r) /\ req[r].hit
    /\ resp[r] = [status |-> 200, payload |-> cachedTopAssets.payload]
    /\ req[r].slotSeen = cachedTopAssets
    /\ \A e \in Exchanges : fetchLog[e] = 1

\* C3, as stated (its part about an existing entry): when every exchange
\* fetch of a cache-miss request has failed and the slot holds an entry, the
\* request answers with that entry's payload and does not replace the slot.
\* The code computes a ranking from zero snapshots, answers with it and
\* stores it.
C3_StaleServedOnTotalOutage ==
  [][\A r \in Requests :
       (req[r].pc = "fetching" /\ req'[r].pc = "done"
          /\ (\A e \in Exchanges : ~req'[r].snapshots[e].ok)
          /\ cachedTopAssets # NoEntry)
       => /\ resp'[r].payload = cachedTopAssets.payload
          /\ cachedTopAssets' = cachedTopAssets]_vars

\* C5, as stated (its status part): every request that has completed was
\* answered 200.  A mercados entry without base_asset (or an entry of a
\* ranked asset without quote_asset) makes normalizeSymbol throw, and the
\* request ends in a 500.
C5_AlwaysAnswers200 ==
  \A r \in Requests : Done(r) => resp[r].status = 200

\* ------------------------------------------------------------------------
\* Ranking (specification SpecRank)
\* ------------------------------------------------------------------------
Ranked == ranking # <<>>

\* The position of an asset in TOP_30_ASSET_UNIVERSE.
UniverseIndex(symbol) ==
  CHOOSE i \in DOMAIN TOP_30_ASSET_UNIVERSE : TOP_30_ASSET_UNIVERSE[i].symbol = symbol

\* The candidates handed to rankAssetFromCandidates for a ranked asset.
CandidatesFor(a) == ranking.candidates[UniverseIndex(a.symbol)]

\* Two candidates from different exchanges with the same quote asset.
HasCompatiblePair(candidates) ==
  \E i, j \in DOMAIN candidates :
     /\ candidates[i].exchange # candidates[j].exchange
     /\ candidates[i].quoteAsset = candidates[j].quoteAsset

\* The exchanges whose fetch succeeded.
Succeeded(snaps) == {e \in Exchanges : snaps[e].ok}

\* What the pipeline produces from the successful exchanges alone: the
\* exchange list is cut down to them, and the failed ones do not exist.
SuccessfulAlone(snaps, cfg) ==
  LET InSucceeded(exchange) == snaps[exchange].ok
  IN  RankedAssets(SelectSeq(TOP_ASSETS_EXCHANGES, InSucceeded),
                   [e \in Succeeded(snaps) |-> snaps[e]], cfg)

\* C4: whatever subset of the exchange fetches failed, the answer is 200,
\* lists every asset of the universe, and its assets are exactly what the
\* pipeline produces from the successful exchanges alone.
C4_FailureIsolation ==
  Ranked =>
    /\ ranking.status = 200
    /\ Len(ranking.assets) = Len(TOP_30_ASSET_UNIVERSE)
    /\ ranking.assets = SuccessfulAlone(snapshots, CfgOf(env))

\* Two fetches failed (binance, kraken) while bybit and okx answered: the
\* answer is 200, BTC is ranked from the two remaining exchanges (buy on
\* bybit, sell on okx, coverage 2) and XRP, SOL and ETH are ranked as well.
C4_Witness ==
  /\ Ranked
  /\ ranking.status = 200
  /\ Succeeded(snapshots) = {"bybit", "okx"}
  /\ \E k \in DOMAIN ranking.assets :
       LET a == ranking.assets[k]
       IN  a.symbol = "BTC" /\ a.coverage = 2
           /\ a.buyExchangeKey = "bybit" /\ a.sellExchangeKey = "okx"
  /\ \E k \in DOMAIN ranking.assets :
       LET a == ranking.assets[k]
       IN  a.symbol = "SOL" /\ a.coverage = 1 /\ a.available

C7_FallbackNeverProfit ==
  (Ranked /\ GUARANTEE_SAFETY_BUFFER_PERCENT(env.buffer) >= 0) =>
    \A k \in DOMAIN ranking.assets :
      LET a == ranking.assets[k]
          c == CandidatesFor(a)
      IN  (Len(c) >= 1 /\ ~HasCompatiblePair(c)) =>
            /\ a.available
            /\ a.buyExchangeKey = a.sellExchangeKey
            /\ a.buyExchangeKey = c[1].exchange
            /\ a.netProfitPercent <= 0
            /\ ~a.guaranteedProfit

\* DOGE has four candidates (at least the minimum coverage) under pairwise
\* different quote assets, and LTC a single candidate with a negative
\* spread, with the buffer unset (0.35 %): both fall back.
C7_Witness ==
  /\ Ranked
  /\ env.buffer = <<>> /\ env.minCoverage = <<>>
  /\ \E k \in DOMAIN ranking.assets :
       LET a == ranking.assets[k]
       IN  /\ a.symbol = "DOGE" /\ a.coverage = 4
           /\ a.coverage >= GUARANTEE_MIN_COVERAGE(env.minCoverage)
           /\ ~HasCompatiblePair(CandidatesFor(a))
           /\ a.buyExchangeKey = "binance" /\ a.sellExchangeKey = "binance"
  /\ \E k \in DOMAIN ranking.assets :
       LET a == ranking.assets[k]
       IN  /\ a.symbol = "LTC" /\ a.coverage = 1
           /\ CandidatesFor(a)[1].spreadPercent < 0
           /\ a.netProfitPercent < 0

\* With a negative buffer the same fallback is reported as guaranteed: the
\* premise of C7 about the buffer is needed.
C7_NegativeBufferGuarantees ==
  /\ Ranked
  /\ GUARANTEE_SAFETY_BUFFER_PERCENT(env.buffer) < 0
  /\ \E k \in DOMAIN ranking.assets :
       LET a == ranking.assets[k]
       IN  a.buyExchangeKey = a.sellExchangeKey /\ a.available /\ a.guaranteedProfit

\* C8: for every ranked asset, guaranteedProfit is true exactly when
\* guaranteedProfitPercent > 0 and coverage >= MIN_COVERAGE; and for every
\* available asset guaranteedProfitPercent is netProfitPercent minus the
\* safety buffer (an unavailable asset carries -999 in both).
C8_GuaranteedIff ==
  Ranked =>
    \A k \in DOMAIN ranking.assets :
      LET a == ranking.assets[k]
          buffer == GUARANTEE_SAFETY_BUFFER_PERCENT(env.buffer)
          minCoverage == GUARANTEE_MIN_COVERAGE(env.minCoverage)
      IN  /\ a.guaranteedProfit <=>
               (a.guaranteedProfitPercent > 0 /\ a.coverage >= minCoverage)
          /\ a.available => a.guaranteedProfitPercent = a.netProfitPercent - buffer
          /\ a.guaranteedProfit => (a.netProfitPercent - buffer > 0 /\ a.available)

\* With the knobs unset (buffer 0.35 %, minimum coverage 3): BTC is
\* guaranteed with three candidates, ETH has a positive guaranteed percent
\* but only two candidates and is not guaranteed, XRP has three candidates
\* and a negative guaranteed percent.
C8_Witness ==
  /\ Ranked
  /\ env.buffer = <<>> /\ env.minCoverage = <<>>
  /\ \E k \in DOMAIN ranking.assets :
       LET a == ranking.assets[k]
       IN  a.symbol = "BTC" /\ a.guaranteedProfit /\ a.coverage = 3
           /\ a.guaranteedProfitPercent > 0
  /\ \E k \in DOMAIN ranking.assets :
       LET a == ranking.assets[k]
       IN  a.symbol = "ETH" /\ ~a.guaranteedProfit /\ a.coverage = 2
           /\ a.guaranteedProfitPercent > 0

\* The number of exchanges for which the candidate selector returns a
\* candidate for the asset, computed from the snapshots.
SelectedCount(asset) ==
  Cardinality({e \in Exchanges :
     /\ snapshots[e].ok
     /\ selectBestMarketForExchange(e, KeysOf(asset),
                                    buildMarketIndex(snapshots[e].mercados)) # <<>>})

\* C9: for every ranked asset, coverage is the number of exchanges for which
\* the candidate selector returned a candidate, and available is true
\* exactly when coverage >= 1.
C9_CoverageCounts ==
  Ranked =>
    \A k \in DOMAIN ranking.assets :
      LET a == ranking.assets[k]
      IN  /\ a.coverage = SelectedCount(TOP_30_ASSET_UNIVERSE[UniverseIndex(a.symbol)])
          /\ a.available <=> a.coverage >= 1

\* binance failed; ADA is listed on the three other exchanges, but two of
\* the entries are invalid (a zero bid, a last price that is not a number):
\* its coverage is 1.  BNB, listed under its symbol on okx, has coverage 1
\* and TON, listed nowhere, has coverage 0 and is unavailable.
C9_Witness ==
  /\ Ranked
  /\ ~snapshots["binance"].ok
  /\ \A e \in {"bybit", "okx", "kraken"} :
        /\ snapshots[e].ok
        /\ \E i \in DOMAIN snapshots[e].mercados : snapshots[e].mercados[i].base_asset = "ADA"
  /\ \E k \in DOMAIN ranking.assets :
       LET a == ranking.assets[k]
       IN  a.symbol = "ADA" /\ a.coverage = 1 /\ a.available
  /\ \E k \in DOMAIN ranking.assets :
       LET a == ranking.assets[k]
       IN  a.symbol = "TON" /\ a.coverage = 0 /\ ~a.available

\* C10: the ranked result lists every asset of the universe once; rank is
\* the position in the array (1..N); every available asset precedes every
\* unavailable one; scores of available assets descend; two assets of the
\* same availability and score keep their universe order.
C10_RankOrder ==
  Ranked =>
    LET A == ranking.assets
        N == Len(A)
    IN  /\ N = Len(TOP_30_ASSET_UNIVERSE)
        /\ {A[k].symbol : k \in 1..N} = {TOP_30_ASSET_UNIVERSE[i].symbol : i \in 1..N}
        /\ \A k \in 1..N : A[k].rank = k
        /\ \A i, j \in 1..N :
             i < j =>
               /\ A[j].available => A[i].available
               /\ (A[i].available /\ A[j].available) => A[i].score >= A[j].score
               /\ (A[i].available = A[j].available /\ A[i].score = A[j].score)
                    => UniverseIndex(A[i].symbol) < UniverseIndex(A[j].symbol)

\* XRP and SOL are available with equal scores and XRP, earlier in the
\* universe, is ranked first; DOGE is available with a score below the -999
\* of the unavailable assets and still precedes all of them.
C10_Witness ==
  /\ Ranked
  /\ \E i, j \in DOMAIN ranking.assets :
       /\ i < j
       /\ ranking.assets[i].symbol = "XRP" /\ ranking.assets[j].symbol = "SOL"
       /\ ranking.assets[i].available /\ ranking.assets[j].available
       /\ ranking.assets[i].score = ranking.assets[j].score
  /\ \E d \in DOMAIN ranking.assets :
       /\ ranking.assets[d].symbol = "DOGE"
       /\ ranking.assets[d].available
       /\ ranking.assets[d].score < -99900
       /\ ~ranking.assets[d + 1].available

\* C11: an asset with no candidate on any exchange is reported with
\* available false, coverage 0, netProfitPercent -999, score -999,
\* guaranteedProfit false and the (non-empty) no-data reason, and every
\* available asset is ranked before it, whatever its score.
C11_UnavailableAsset ==
  Ranked =>
    \A k \in DOMAIN ranking.assets :
      LET a == ranking.assets[k]
      IN  Len(CandidatesFor(a)) = 0 =>
            /\ ~a.available
            /\ a.coverage = 0
            /\ a.netProfitPercent = -99900
            /\ a.score = -99900
            /\ ~a.guaranteedProfit
            /\ a.reason = ReasonNoData /\ a.reason # ""
            /\ \A j \in DOMAIN ranking.assets :
                 ranking.assets[j].available => ranking.assets[j].rank < a.rank

\* TON has no candidate; DOGE, available with a score below -999, and BTC
\* are both ranked before it.
C11_Witness ==
  /\ Ranked
  /\ \E t, d, b \in DOMAIN ranking.assets :
       /\ ranking.assets[t].symbol = "TON"
       /\ Len(CandidatesFor(ranking.assets[t])) = 0
       /\ ranking.assets[t].score = -99900
       /\ ranking.assets[d].symbol = "DOGE"
       /\ ranking.assets[d].available
       /\ ranking.assets[d].score < ranking.assets[t].score
       /\ ranking.assets[b].symbol = "BTC"
       /\ ranking.assets[b].score > ranking.assets[t].score
       /\ b < d /\ d < t

IsScenarioA(candidates) ==
  /\ Len(candidates) = 2
  /\ \E b, k \in DOMAIN candidates :
       /\ candidates[b].exchange = "binance" /\ candidates[b].quoteAsset = "USDT"
       /\ candidates[b].ask = 2000 /\ candidates[b].bid = 1999
       /\ candidates[b].spreadPercent = 5
       /\ candidates[k].exchange = "kraken" /\ candidates[k].quoteAsset = "USDT"
       /\ candidates[k].ask = 2006 /\ candidates[k].bid = 2004
       /\ candidates[k].spreadPercent = 10

\* C13 as stated: in Scenario A the kept pair is buy on binance / sell on
\* kraken, grossArbitragePercent is about 0.3 % (0.25 % to 0.35 %), the
\* estimated costs are about 0.58 %, netProfitPercent is negative and
\* guaranteedProfit is false.
C13_ScenarioAAsStated ==
  Ranked =>
    \A i \in DOMAIN ranking.assets :
      LET a == ranking.assets[i]
      IN  IsScenarioA(CandidatesFor(a)) =>
            /\ a.buyExchangeKey = "binance" /\ a.sellExchangeKey = "kraken"
            /\ a.grossArbitragePercent >= 25 /\ a.grossArbitragePercent <= 35
            /\ a.estimatedCostsPercent >= 57 /\ a.estimatedCostsPercent <= 59
            /\ a.netProfitPercent < 0
            /\ ~a.guaranteedProfit

\* C13, amended: in Scenario A the kept pair is buy on binance / sell on
\* kraken, grossArbitragePercent is 0.20 % ((100.20 - 100.00) / 100.00), the
\* estimated costs are 0.58 %, netProfitPercent is negative (about -0.38 %),
\* and guaranteedProfit is false whenever the safety buffer is not negative
\* or the minimum coverage is above 2.
C13_ScenarioA ==
  Ranked =>
    \A i \in DOMAIN ranking.assets :
      LET a == ranking.assets[i]
      IN  IsScenarioA(CandidatesFor(a)) =>
            /\ a.buyExchangeKey = "binance" /\ a.sellExchangeKey = "kraken"
            /\ a.grossArbitragePercent = 20
            /\ a.estimatedCostsPercent = 58
            /\ a.netProfitPercent < 0 /\ a.netProfitPercent >= -39
            /\ ( GUARANTEE_SAFETY_BUFFER_PERCENT(env.buffer) >= 0
                 \/ GUARANTEE_MIN_COVERAGE(env.minCoverage) > 2 )
               => ~a.guaranteedProfit

\* BTC is ranked from the two candidates of Scenario A, under the default
\* configuration.
C13_Witness ==
  /\ Ranked
  /\ env.buffer = <<>> /\ env.minCoverage = <<>>
  /\ \E i \in DOMAIN ranking.assets :
       /\ ranking.assets[i].symbol = "BTC"
       /\ IsScenarioA(CandidatesFor(ranking.assets[i]))
       /\ ranking.assets[i].coverage = 2
       /\ ranking.assets[i].netProfitPercent < 0

\* The requests that ran the pipeline to its end and assigned the slot.
Writers == {r \in Requests : Done(r) /\ ~req[r].hit /\ resp[r].status = 200}

\* C14: every request that misses the cache runs its own pipeline and, if
\* the pipeline ends, assigns the slot once, as a whole; the slot always
\* holds exactly the payload answered by the request that assigned it last,
\* paired with that request's own expiresAt (its start time plus the TTL),
\* also when requests overlap.
C14_LastWriterWins ==
  /\ slotWrites = Cardinality(Writers)
  /\ \A r1, r2 \in Writers : r1 # r2 => req[r1].writesAfter # req[r2].writesAfter
  /\ IF Writers = {}
       THEN cachedTopAssets = NoEntry
       ELSE \E w \in Writers :
              /\ req[w].writesAfter = slotWrites
              /\ cachedTopAssets = [expiresAt |-> req[w].now + Ttl,
                                    payload |-> resp[w].payload]
              /\ cachedTopAssets.payload.total = Len(cachedTopAssets.payload.assets)

\* Two overlapping misses: the one that started first finished last, so the
\* slot holds its payload with its (earlier) expiresAt.
C14_Witness ==
  \E r1, r2 \in Writers :
    /\ req[r1].now < req[r2].now
    /\ req[r2].writesAfter = 1 /\ req[r1].writesAfter = 2 /\ slotWrites = 2
    /\ resp[r1].payload # resp[r2].payload
    /\ resp[r1].payload.assets # resp[r2].payload.assets
    /\ cachedTopAssets.payload = resp[r1].payload
    /\ cachedTopAssets.expiresAt = req[r1].now + Ttl
    /\ cachedTopAssets.expiresAt < req[r2].now + Ttl

\* The settings of TRADING_DRY_RUN that read as one of 0, false, no, n, off
\* once trimmed and lower-cased.
ParsesAsFalse ==
  { << <<"f", "a", "l", "s", "e">> >>,
    << <<"F", "A", "L", "S", "E">> >>,
    << <<" ", "F", "a", "l", "s", "e", "\n">> >>,
    << <<"0">> >>,
    << <<"n", "o">> >>,
    << <<"N">> >>,
    << <<"\t", "O", "f", "f">> >> }

\* C15: dry-run is enabled unless TRADING_DRY_RUN parses as false (so also
\* when it is unset, empty or unrecognised); while it is enabled no POST
\* /trade/order ever calls placeOrder, and an order that was accepted and
\* recorded has the trade_actions status DRY_RUN and is answered 200 with
\* status DRY_RUN; placeOrder is called only when TRADING_DRY_RUN parses as
\* false.
C15_DryRunSafety ==
  /\ isDryRunEnabled(tradingDryRun) <=> tradingDryRun \notin ParsesAsFalse
  /\ tradingDryRun \notin ParsesAsFalse =>
       \A q \in Orders :
         /\ placeOrderCalls[q] = 0
         /\ orders[q].pc \notin {"place", "executed", "failed"}
         /\ tradeActions[q] \in {NoTradeAction, "DRY_RUN", "FAILED"}
         /\ tradeActions[q] = "DRY_RUN" <=>
              (orders[q].pc = "done" /\ orders[q].code = 200)
         /\ orders[q].code = 200 => orders[q].status = "DRY_RUN"
         /\ orders[q].code \in {0, 200, 400}
  /\ \A q \in Orders : placeOrderCalls[q] > 0 => tradingDryRun \in ParsesAsFalse

\* TRADING_DRY_RUN is unset and an accepted order was recorded and answered
\* as a dry run, while another request was answered 400.
C15_Witness ==
  /\ tradingDryRun = <<>>
  /\ \E q1, q2 \in Orders :
       /\ orders[q1].accepted /\ orders[q1].pc = "done"
       /\ orders[q1].code = 200 /\ orders[q1].status = "DRY_RUN"
       /\ tradeActions[q1] = "DRY_RUN"
       /\ placeOrderCalls[q1] = 0
       /\ orders[q2].pc = "done" /\ orders[q2].code = 400

\* TRADING_DRY_RUN is " False\n" and an order went to the exchange.
C15_WitnessLive ==
  /\ tradingDryRun = << <<" ", "F", "a", "l", "s", "e", "\n">> >>
  /\ \E q \in Orders : placeOrderCalls[q] = 1 /\ orders[q].code = 200
                       /\ orders[q].status = "EXECUTED"

\* The ordered pairs (buy, sell) of positions in candidates with different
\* exchanges and the same quote asset.
CompatiblePairs(candidates) ==
  {p \in (DOMAIN candidates) \X (DOMAIN candidates) :
     /\ candidates[p[1]].exchange # candidates[p[2]].exchange
     /\ candidates[p[1]].quoteAsset = candidates[p[2]].quoteAsset}

MatchingEntries(exchange, symbol) ==
  IF ~snapshots[exchange].ok THEN <<>>
  ELSE MatchesOf(KeysOf(TOP_30_ASSET_UNIVERSE[UniverseIndex(symbol)]),
                 buildMarketIndex(snapshots[exchange].mercados))

MatchingTickers(exchange, symbol) ==
  LET matches == MatchingEntries(exchange, symbol)
  IN  [i \in DOMAIN matches |-> ToCandidate(exchange, matches[i])]

HasPositivePrices(c) == c.ask > 0 /\ c.bid > 0 /\ c.last > 0

\* The matching tickers with positive prices.
ValidTickers(exchange, symbol) ==
  SelectSeq(MatchingTickers(exchange, symbol), HasPositivePrices)

\* The candidate of an exchange among those handed to the pair evaluator.
ChosenOn(exchange, a) ==
  LET OfExchange(c) == c.exchange = exchange
  IN  SelectSeq(CandidatesFor(a), OfExchange)

\* x comes strictly before y in the order by quote priority, then absolute
\* spread, then descending bid.
BeforeByAbsoluteSpread(x, y) ==
  LET qx == getQuotePriority(x.quoteAsset)
      qy == getQuotePriority(y.quoteAsset)
  IN  IF qx # qy THEN qx < qy
      ELSE IF Abs(x.spreadPercent) # Abs(y.spreadPercent)
        THEN Abs(x.spreadPercent) < Abs(y.spreadPercent)
      ELSE x.bid > y.bid

\* C17: for every asset and exchange with a valid matching ticker, the
\* chosen candidate is one of the valid matching tickers and none of them
\* comes before it by quote priority, then ascending absolute spread, then
\* descending bid.
C17_SelectionOrder ==
  (Ranked /\ ranking.status = 200) =>
    \A k \in DOMAIN ranking.assets, e \in Exchanges :
      LET a == ranking.assets[k]
          valid == ValidTickers(e, a.symbol)
          chosen == ChosenOn(e, a)
      IN  valid # <<>> =>
            /\ Len(chosen) = 1
            /\ chosen[1] \in Range(valid)
            /\ \A i \in DOMAIN valid : ~BeforeByAbsoluteSpread(valid[i], chosen[1])

\* x comes strictly before y in the order the comparator implements: quote
\* priority, then the signed spread, then descending bid.
BeforeBySignedSpread(x, y) ==
  LET qx == getQuotePriority(x.quoteAsset)
      qy == getQuotePriority(y.quoteAsset)
  IN  IF qx # qy THEN qx < qy
      ELSE IF x.spreadPercent # y.spreadPercent
        THEN x.spreadPercent < y.spreadPercent
      ELSE x.bid > y.bid

\* What holds instead of C17: the chosen candidate is the first valid ticker
\* by quote priority, then ascending signed spread, then descending bid; it
\* is the one C17 names whenever no valid ticker of the best quote has a
\* negative spread.
C17_SignedSelectionOrder ==
  (Ranked /\ ranking.status = 200) =>
    \A k \in DOMAIN ranking.assets, e \in Exchanges :
      LET a == ranking.assets[k]
          valid == ValidTickers(e, a.symbol)
          chosen == ChosenOn(e, a)
      IN  valid # <<>> =>
            /\ Len(chosen) = 1
            /\ chosen[1] \in Range(valid)
            /\ \A i \in DOMAIN valid : ~BeforeBySignedSpread(valid[i], chosen[1])
            /\ (\A i \in DOMAIN valid : valid[i].spreadPercent >= 0) =>
                 \A i \in DOMAIN valid : ~BeforeByAbsoluteSpread(valid[i], chosen[1])

\* kraken lists AVAX/USDT twice, with spreads 0.10 % and -0.50 %, and the
\* ticker with the spread -0.50 % is the candidate.
C17_NegativeSpreadChosen ==
  /\ Ranked /\ ranking.status = 200
  /\ \E k \in DOMAIN ranking.assets :
       LET a == ranking.assets[k]
           valid == ValidTickers("kraken", a.symbol)
           chosen == ChosenOn("kraken", a)
       IN  /\ a.symbol = "AVAX"
           /\ Len(valid) = 2
           /\ valid[1].spreadPercent = 10 /\ valid[2].spreadPercent = -50
           /\ chosen = <<valid[2]>>

\* C18: every candidate handed to the pair evaluator has ask > 0, bid > 0
\* and last > 0 and is a valid matching ticker of its exchange; an exchange
\* with a valid matching ticker contributes one (also when a better-ranked
\* ticker of it is invalid), and an exchange whose matching tickers are all
\* invalid contributes none.
C18_CandidatesArePositive ==
  (Ranked /\ ranking.status = 200) =>
    \A k \in DOMAIN ranking.assets :
      LET a == ranking.assets[k]
          c == CandidatesFor(a)
      IN  /\ \A i \in DOMAIN c :
               /\ c[i].ask > 0 /\ c[i].bid > 0 /\ c[i].last > 0
               /\ c[i] \in Range(ValidTickers(c[i].exchange, a.symbol))
          /\ \A e \in Exchanges :
               Len(ChosenOn(e, a)) =
                 (IF ValidTickers(e, a.symbol) = <<>> THEN 0 ELSE 1)

\* kraken lists SUI/USDT with a non-numeric ask and with a negative bid, and
\* SUI/EUR with positive prices: the EUR ticker is the candidate; binance
\* lists ADA only with a non-numeric ask and contributes no candidate.
C18_Witness ==
  /\ Ranked /\ ranking.status = 200
  /\ \E k, j \in DOMAIN ranking.assets :
       LET a == ranking.assets[k]
           b == ranking.assets[j]
       IN  /\ a.symbol = "SUI"
           /\ Len(MatchingTickers("kraken", "SUI")) = 3
           /\ MatchingTickers("kraken", "SUI")[1].quoteAsset = "USDT"
           /\ MatchingTickers("kraken", "SUI")[1].ask = 0
           /\ MatchingTickers("kraken", "SUI")[2].bid < 0
           /\ Len(ChosenOn("kraken", a)) = 1
           /\ ChosenOn("kraken", a)[1].quoteAsset = "EUR"
           /\ a.available /\ a.coverage = 1
           /\ b.symbol = "ADA"
           /\ Len(MatchingTickers("binance", "ADA")) = 1
           /\ ValidTickers("binance", "ADA") = <<>>
           /\ ChosenOn("binance", b) = <<>>

\* The four numeric fields of a market entry are all numbers.
IsAllNumeric(item) ==
  /\ item.valor_atual # NotANumber /\ item.taxa_compra # NotANumber
  /\ item.taxa_venda # NotANumber /\ item.spread_percentual # NotANumber

\* C19: every candidate comes from a matching entry whose four numeric
\* fields are all numbers, and it is the candidate that would be chosen had
\* the entries with a non-numeric field not been in the payload.
C19_NonNumericExcluded ==
  (Ranked /\ ranking.status = 200) =>
    \A k \in DOMAIN ranking.assets, e \in Exchanges :
      LET a == ranking.assets[k]
          entries == MatchingEntries(e, a.symbol)
          numeric == SelectSeq(entries, IsAllNumeric)
          chosen == ChosenOn(e, a)
      IN  /\ \A i \in DOMAIN chosen :
               \E j \in DOMAIN numeric : chosen[i] = ToCandidate(e, numeric[j])
          /\ chosen =
               selectBestMarketForExchange(
                 e, <<a.symbol>>, (a.symbol :> numeric))

\* What holds instead of C19: an entry whose ask, bid or last price is not a
\* number is never a candidate, while a non-numeric spread_percentual is
\* read as 0.
C19_NonNumericPriceExcluded ==
  (Ranked /\ ranking.status = 200) =>
    \A k \in DOMAIN ranking.assets, e \in Exchanges :
      LET a == ranking.assets[k]
          entries == MatchingEntries(e, a.symbol)
          chosen == ChosenOn(e, a)
      IN  \A i \in DOMAIN chosen :
            /\ \E j \in DOMAIN entries :
                 /\ chosen[i] = ToCandidate(e, entries[j])
                 /\ entries[j].valor_atual # NotANumber
                 /\ entries[j].taxa_compra # NotANumber
                 /\ entries[j].taxa_venda # NotANumber
            /\ (\A j \in DOMAIN entries :
                  chosen[i] = ToCandidate(e, entries[j])
                    => entries[j].spread_percentual = NotANumber)
               => chosen[i].spreadPercent = 0

\* kraken lists LINK/USDT with spread 0.05 % and LINK/USDT with a spread
\* that is not a number: the second is the candidate, with spread 0.
C19_NonNumericSpreadChosen ==
  /\ Ranked /\ ranking.status = 200
  /\ \E k \in DOMAIN ranking.assets :
       LET a == ranking.assets[k]
           entries == MatchingEntries("kraken", a.symbol)
       IN  /\ a.symbol = "LINK"
           /\ Len(entries) = 2
           /\ entries[1].spread_percentual = Num(5)
           /\ entries[2].spread_percentual = NotANumber
           /\ ChosenOn("kraken", a) = <<ToCandidate("kraken", entries[2])>>
           /\ ChosenOn("kraken", a)[1].spreadPercent = 0

\* C20: a step in which requests miss the cache issues exactly one fetch to
\* each of binance, bybit, okx and kraken per such request, and none to
\* coinbase; no other step issues a fetch: not a hit, not the completion of
\* a request whose fetches failed (no retry), not the passing of time (no
\* background refresh).
C20_FetchDiscipline ==
  [][ LET missing == {r \in Requests : req[r].pc = "idle" /\ req'[r].pc = "fetching"}
      IN  /\ \A r \in missing : ~CacheIsFresh(cachedTopAssets, now)
          /\ \A r \in Requests :
               (req[r].pc = "idle" /\ req'[r].pc # "idle"
                  /\ ~CacheIsFresh(cachedTopAssets, now)) => r \in missing
          /\ \A e \in DOMAIN fetchLog :
               fetchLog'[e] - fetchLog[e] =
                 IF e \in {"binance", "bybit", "okx", "kraken"}
                   THEN Cardinality(missing) ELSE 0 ]_vars

\* A request missed the cache and all four of its fetches failed; a second
\* request missed as well; each exchange but coinbase was queried exactly
\* twice.
C20_Witness ==
  /\ \E r1, r2 \in Requests :
       /\ r1 # r2
       /\ Done(r1) /\ ~req[r1].hit
       /\ \A e \in Exchanges : ~req[r1].snapshots[e].ok
       /\ Done(r2) /\ ~req[r2].hit
  /\ \A e \in Exchanges : fetchLog[e] = 2
  /\ fetchLog["coinbase"] = 0

\* C21: every fetch of a request is started before any of them is consumed,
\* the ranking is computed only after each has settled (the snapshots it
\* ranks are the settled ones), the response is 200 and is sent no later
\* than the fetch timeout after the request started, and every request that
\* is waiting for its fetches eventually answers.
C21_WaitForAll ==
  /\ [](\A r \in JoinRequests :
          /\ req[r].pc = "fetching" => \A e \in Exchanges : fetches[r][e] # "idle"
          /\ (Done(r) /\ ~req[r].hit) =>
               /\ \A e \in Exchanges :
                    /\ fetches[r][e] \in {"ok", "null"}
                    /\ req[r].snapshots[e].ok <=> fetches[r][e] = "ok"
               /\ resp[r].status = 200
               /\ resp[r].payload.generatedAt <= req[r].now + FETCH_TIMEOUT_MS)
  /\ \A r \in JoinRequests : (req[r].pc = "fetching") ~> Done(r)

\* kraken never answered: its fetch settled as null at its timeout, the
\* request answered 200 at that moment, from the three other snapshots.
C21_Witness ==
  \E r \in JoinRequests :
    /\ Done(r) /\ ~req[r].hit
    /\ fetches[r]["kraken"] = "null"
    /\ \A e \in Exchanges \ {"kraken"} : fetches[r][e] = "ok"
    /\ resp[r].status = 200
    /\ resp[r].payload.total = 30
    /\ resp[r].payload.generatedAt = req[r].now + FETCH_TIMEOUT_MS

\* The taker fees, in basis points, as the claims state them.
FeeOf(exchange) == IF exchange = "kraken" THEN 26 ELSE 10

\* max(0.05 %, |spread| * 0.35), in basis points.
SlippageOf(spreadPercent) ==
  LET magnitude == IF spreadPercent < 0 THEN -spreadPercent ELSE spreadPercent
      scaled == (magnitude * 35) \div 100
  IN  IF scaled > 5 THEN scaled ELSE 5

\* C22: for every compatible pair of an asset's candidates the estimated
\* costs are the sum of the two leg costs, each the exchange's taker fee
\* plus max(floor, |spread| * 0.35) plus half the transfer cost (0.06 %), so
\* at least both fees plus twice the floor plus the transfer cost; and the
\* costs reported for an asset with such a pair are those of its pair.
C22_CostModel ==
  Ranked =>
    \A k \in DOMAIN ranking.assets :
      LET a == ranking.assets[k]
          c == CandidatesFor(a)
      IN  /\ \A p \in CompatiblePairs(c) :
               LET buy == c[p[1]]
                   sell == c[p[2]]
                   costs == estimateNetProfitPercent(buy, sell).estimatedCostsPercent
               IN  /\ costs = (FeeOf(buy.exchange) + SlippageOf(buy.spreadPercent) + 6)
                              + (FeeOf(sell.exchange) + SlippageOf(sell.spreadPercent) + 6)
                   /\ costs >= FeeOf(buy.exchange) + FeeOf(sell.exchange) + 2 * 5 + 12
                   /\ (buy.exchange = a.buyExchangeKey /\ sell.exchange = a.sellExchangeKey)
                        => a.estimatedCostsPercent = costs
          /\ CompatiblePairs(c) # {} => a.buyExchangeKey # a.sellExchangeKey

\* BTC bought on kraken with a spread of 300 % and sold on binance with a
\* spread of -2 %: slippage 105 % and 0.70 %, both above the floor.
C22_Witness ==
  /\ Ranked
  /\ \E k \in DOMAIN ranking.assets :
       LET a == ranking.assets[k]
           c == CandidatesFor(a)
       IN  /\ a.symbol = "BTC"
           /\ \E p \in CompatiblePairs(c) :
                /\ c[p[1]].exchange = "kraken" /\ c[p[1]].spreadPercent = 30000
                /\ c[p[2]].exchange = "binance" /\ c[p[2]].spreadPercent = -200
                /\ estimateNetProfitPercent(c[p[1]], c[p[2]]).estimatedCostsPercent
                     = (26 + 10500 + 6) + (10 + 70 + 6)

\* The sum over the candidates of the spread, a negative spread counting 0.
RECURSIVE NonNegativeSpreadSum(_)
NonNegativeSpreadSum(c) ==
  IF c = <<>> THEN 0
  ELSE (IF Head(c).spreadPercent > 0 THEN Head(c).spreadPercent ELSE 0)
       + NonNegativeSpreadSum(Tail(c))

\* C23: for every available asset, averageSpreadPercent is the mean over
\* its candidates of max(0, spreadPercent), so it is never negative, and
\* score = guaranteedProfitPercent + coverage * 0.35
\*         - averageSpreadPercent * 0.35.
C23_Score ==
  Ranked =>
    \A k \in DOMAIN ranking.assets :
      LET a == ranking.assets[k]
          c == CandidatesFor(a)
      IN  a.available =>
            /\ a.coverage = Len(c)
            /\ a.averageSpreadPercent = NonNegativeSpreadSum(c) \div Len(c)
            /\ a.averageSpreadPercent >= 0
            /\ a.score = a.guaranteedProfitPercent + a.coverage * 35
                         - ((a.averageSpreadPercent * 35) \div 100)

\* An available asset all of whose candidates have a negative spread (its
\* average spread is 0), and one with spreads of both signs.
C23_Witness ==
  /\ Ranked
  /\ \E k, j \in DOMAIN ranking.assets :
       LET a == ranking.assets[k]
           b == ranking.assets[j]
       IN  /\ a.available
           /\ \A i \in DOMAIN CandidatesFor(a) : CandidatesFor(a)[i].spreadPercent < 0
           /\ a.averageSpreadPercent = 0
           /\ b.available /\ b.coverage >= 2
           /\ \E i \in DOMAIN CandidatesFor(b) : CandidatesFor(b)[i].spreadPercent < 0
           /\ b.averageSpreadPercent > 0

\* C24: every response served from the cache carries the payload of a
\* request that ran the pipeline, whose start time plus the TTL is the
\* expiry of the entry served and lies strictly after the start of the
\* served request; the expiry of the slot is always the start time of the
\* request that filled it plus the TTL.
C24_StalenessBound ==
  /\ \A b \in Requests :
       (Done(b) /\ req[b].hit) =>
         \E w \in Writers :
           /\ resp[b].payload = resp[w].payload
           /\ req[b].servedExpiry = req[w].now + Ttl
           /\ req[b].now < req[w].now + Ttl
           /\ req[w].now <= resp[w].payload.generatedAt
  /\ cachedTopAssets # NoEntry =>
       \E w \in Writers : cachedTopAssets.expiresAt = req[w].now + Ttl

\* A request started at time 0 and answered two seconds later; a request
\* that started at that moment was served its payload, whose entry expires
\* one second later (not a TTL after it was generated).
C24_Witness ==
  \E w, b \in Requests :
    /\ w \in Writers /\ Done(b) /\ req[b].hit
    /\ req[w].now = 0
    /\ resp[w].payload.generatedAt = 2000
    /\ req[b].now = 2000
    /\ resp[b].payload = resp[w].payload
    /\ req[b].servedExpiry = 3000
    /\ cachedTopAssets.expiresAt < resp[w].payload.generatedAt + Ttl

\* C25: no assignment to the slot replaces an entry by one with a smaller
\* expiresAt.
C25_ExpiryNeverDecreases ==
  [][ (cachedTopAssets # NoEntry /\ cachedTopAssets' # cachedTopAssets)
        => cachedTopAssets'.expiresAt >= cachedTopAssets.expiresAt ]_vars

\* The slot holds an entry that had already expired when it was written:
\* its request started first and finished last, after its own expiry, and
\* replaced the entry of a request that started later.
C25_ExpiredEntryWritten ==
  \E r1, r2 \in Writers :
    /\ req[r1].now < req[r2].now
    /\ req[r1].writesAfter = 2 /\ req[r2].writesAfter = 1
    /\ cachedTopAssets.payload = resp[r1].payload
    /\ cachedTopAssets.expiresAt = req[r1].now + Ttl
    /\ cachedTopAssets.expiresAt <= resp[r1].payload.generatedAt
    /\ cachedTopAssets.expiresAt < req[r2].now + Ttl

IsCompletePayload(payload) ==
  /\ payload.total = 30
  /\ Len(payload.assets) = 30
  /\ Len(TOP_30_ASSET_UNIVERSE) = 30
  /\ \A i \in DOMAIN TOP_30_ASSET_UNIVERSE :
       Cardinality({k \in DOMAIN payload.assets :
                      payload.assets[k].id = TOP_30_ASSET_UNIVERSE[i].symbol}) = 1
  /\ \A k \in DOMAIN payload.assets :
       /\ payload.assets[k].symbol = payload.assets[k].id
       /\ payload.assets[k].rank = k

\* C27: every payload a request computed or was served, and the payload in
\* the slot, has exactly one entry per asset of the universe, whatever the
\* exchanges answered.
C27_OneEntryPerAsset ==
  /\ \A r \in Requests :
       (Done(r) /\ resp[r].status = 200) => IsCompletePayload(resp[r].payload)
  /\ cachedTopAssets # NoEntry => IsCompletePayload(cachedTopAssets.payload)

\* All four fetches of a request failed and its payload has the 30 assets,
\* none available; another request, with every exchange answering, has the
\* 30 assets as well, some available.
C27_Witness ==
  \E r1, r2 \in Writers :
    /\ \A e \in Exchanges : ~req[r1].snapshots[e].ok
    /\ resp[r1].payload.total = 30
    /\ \A k \in DOMAIN resp[r1].payload.assets : ~resp[r1].payload.assets[k].available
    /\ \A e \in Exchanges : req[r2].snapshots[e].ok
    /\ resp[r2].payload.total = 30
    /\ resp[r2].payload.assets[1].available
    /\ ~resp[r2].payload.assets[30].available

\* C28: with dry-run disabled, an answered request whose call of placeOrder
\* returned is answered 200 with status EXECUTED and its row is EXECUTED; a
\* FAILED row or an answer 400 or 500 means placeOrder was not called or
\* threw; no answered request leaves its row PENDING; database failures
\* included.
C28_StatusReflectsOutcome ==
  ~isDryRunEnabled(tradingDryRun) =>
    \A q \in Orders :
      orders[q].pc = "done" =>
        /\ orders[q].placed = "returned" =>
             /\ orders[q].code = 200 /\ orders[q].status = "EXECUTED"
             /\ tradeActions[q] = "EXECUTED"
        /\ (tradeActions[q] = "FAILED" \/ orders[q].code \in {400, 500})
             => orders[q].placed \in {"none", "threw"}
        /\ tradeActions[q] # "PENDING"

\* What holds instead of C28: the same, for the requests none of whose
\* database writes failed.
C28_StatusReflectsOutcomeWhenWritesSucceed ==
  ~isDryRunEnabled(tradingDryRun) =>
    \A q \in Orders :
      (orders[q].pc = "done" /\ ~orders[q].dbFailed) =>
        /\ orders[q].placed = "returned" =>
             /\ orders[q].code = 200 /\ orders[q].status = "EXECUTED"
             /\ tradeActions[q] = "EXECUTED"
        /\ (tradeActions[q] = "FAILED" \/ orders[q].code \in {400, 500})
             => orders[q].placed \in {"none", "threw"}
        /\ tradeActions[q] # "PENDING"

\* placeOrder returned, the EXECUTED update failed and the FAILED update
\* succeeded: the order is on the exchange, the row is FAILED and the answer
\* is 500; for another request both updates failed: its answer is 400 and
\* its row is still PENDING.
C28_ExecutedReportedFailed ==
  /\ ~isDryRunEnabled(tradingDryRun)
  /\ \E q1, q2 \in Orders :
       /\ orders[q1].pc = "done" /\ orders[q1].placed = "returned"
       /\ orders[q1].code = 500 /\ orders[q1].status = "FAILED"
       /\ tradeActions[q1] = "FAILED"
       /\ orders[q2].pc = "done" /\ orders[q2].placed = "returned"
       /\ orders[q2].code = 400 /\ tradeActions[q2] = "PENDING"

\* ------------------------------------------------------------------------
\* Site, paired arbitrage order: POST of app/api/chart/route.ts.  A string is
\* the sequence of its characters.  A JSON value of the body is a record
\* [type, value]: type "string" (value the characters), "number" (value
\* <<n>>, or <<>> for a non-finite number such as 1e999), or "undefined"
\* (the field is absent, or the body did not parse).  Amounts are in tenths
\* of a unit, and the strings drawn have at most one decimal digit.

ALLOWED_EXCHANGES ==
  <<<<"b", "i", "n", "a", "n", "c", "e">>, <<"b", "y", "b", "i", "t">>, <<"o", "k", "x">>, <<"k", "r", "a", "k", "e", "n">>>>

\* null is <<>>, which the tests of POST treat as they treat ""
normalizeExchange(value) ==
  IF value.type # "string" THEN <<>>
  ELSE LET ex == toLowerCase(trim(value.value))
       IN  IF ex \in Range(ALLOWED_EXCHANGES) THEN ex ELSE <<>>

DecimalDigits == <<"0", "1", "2", "3", "4", "5", "6", "7", "8", "9">>

IsDecimalDigit(c) == c \in Range(DecimalDigits)

DigitValue(c) == (CHOOSE k \in DOMAIN DecimalDigits : DecimalDigits[k] = c) - 1

RECURSIVE DigitPrefix(_)
DigitPrefix(s) ==
  IF s # <<>> /\ IsDecimalDigit(Head(s))
    THEN <<Head(s)>> \o DigitPrefix(Tail(s))
    ELSE <<>>

RECURSIVE DigitsValue(_)
DigitsValue(s) ==
  IF s = <<>> THEN 0
  ELSE 10 * DigitsValue(SubSeq(s, 1, Len(s) - 1)) + DigitValue(s[Len(s)])

\* Number.parseFloat: leading white space, a sign, the longest decimal
\* prefix; <<>> (NaN) when there is no digit.  The result is in tenths.
parseFloat(s) ==
  LET t == trimStart(s)
      signed == t # <<>> /\ Head(t) \in {"-", "+"}
      u == IF signed THEN Tail(t) ELSE t
      whole == DigitPrefix(u)
      rest == SubSeq(u, Len(whole) + 1, Len(u))
      frac == IF rest # <<>> /\ Head(rest) = "." THEN DigitPrefix(Tail(rest)) ELSE <<>>
      magnitude == 10 * DigitsValue(whole)
                     + (IF frac = <<>> THEN 0 ELSE DigitValue(Head(frac)))
  IN  IF whole = <<>> /\ frac = <<>> THEN NotANumber
      ELSE IF signed /\ Head(t) = "-" THEN <<0 - magnitude>> ELSE <<magnitude>>

\* toNumber of chart/route.ts: <<n>>, or <<>> for null
chartToNumber(value) ==
  IF value.type = "number" THEN value.value
  ELSE IF value.type = "string" THEN parseFloat(value.value)
  ELSE <<>>

\* String.prototype.replace(/\/+$/, "")
RECURSIVE stripTrailingSlashes(_)
stripTrailingSlashes(s) ==
  IF s # <<>> /\ s[Len(s)] = "/"
    THEN stripTrailingSlashes(SubSeq(s, 1, Len(s) - 1))
    ELSE s

startsWith(s, prefix) ==
  Len(s) >= Len(prefix) /\ SubSeq(s, 1, Len(prefix)) = prefix

includes(s, c) == \E k \in DOMAIN s : s[k] = c

\* body?.symbol: the trimmed string, "" for anything else
SymbolOf(value) == IF value.type = "string" THEN trim(value.value) ELSE <<>>

\* The tests of POST in their order: 0 when every one passes, else the
\* status of the first that fails.
ValidatePost(input) ==
  LET baseUrl == stripTrailingSlashes(input.baseUrl)
      buyExchange == normalizeExchange(input.buyExchange)
      sellExchange == normalizeExchange(input.sellExchange)
      symbol == SymbolOf(input.symbol)
      amount == chartToNumber(input.amount)
  IN  IF baseUrl = <<>> THEN 500
      ELSE IF ~startsWith(toLowerCase(input.authorization), <<"b", "e", "a", "r", "e", "r", " ">>) THEN 401
      ELSE IF buyExchange = <<>> \/ sellExchange = <<>> THEN 400
      ELSE IF buyExchange = sellExchange THEN 400
      ELSE IF symbol = <<>> \/ Len(symbol) < 3 \/ ~includes(symbol, "/") THEN 400
      ELSE IF amount = <<>> \/ amount[1] = 0 \/ amount[1] <= 0 THEN 400
      ELSE 0

\* The order callTradeOrder posts to /trade/order for one side
LegOrder(input, side) ==
  [status |-> "pending",
   exchange |-> IF side = "BUY" THEN normalizeExchange(input.buyExchange)
                                ELSE normalizeExchange(input.sellExchange),
   symbol |-> SymbolOf(input.symbol),
   amount |-> chartToNumber(input.amount)[1]]

\* ok of the response: both legs fulfilled with ok
BothOk(l) == l["BUY"].status = "ok" /\ l["SELL"].status = "ok"

StatusOfPair(ok) == IF ok THEN 200 ELSE 207

\* The requests drawn.  The authorization header is as Headers.get gives it,
\* without leading or trailing white space; <<>> when absent.
BaseUrlValues == {<<>>, <<"/", "/">>, <<"h", "t", "t", "p", ":", "/", "/", "d", "b">>, <<"h", "t", "t", "p", ":", "/", "/", "d", "b", "/">>}

AuthorizationValues ==
  {<<>>, <<"B", "a", "s", "i", "c", " ", "a", "b", "c">>, <<"B", "e", "a", "r", "e", "r", " ", "t">>, <<"b", "e", "a", "r", "e", "r", " ", "t">>, <<"B", "e", "a", "r", "e", "r", "x">>}

JsonString(s) == [type |-> "string", value |-> s]

JsonNumber(n) == [type |-> "number", value |-> <<n>>]

JsonUndefined == [type |-> "undefined", value |-> <<>>]

ExchangeValues ==
  {JsonUndefined, JsonString(<<"b", "i", "n", "a", "n", "c", "e">>), JsonString(<<" ", "B", "i", "n", "a", "n", "c", "e", " ">>),
   JsonString(<<"k", "r", "a", "k", "e", "n">>), JsonString(<<"c", "o", "i", "n", "b", "a", "s", "e">>)}

SymbolValues ==
  {JsonUndefined, JsonString(<<"B", "T", "C", "/", "U", "S", "D", "T">>), JsonString(<<" ", "b", "t", "c", "/", "u", "s", "d", "t", "\n">>),
   JsonString(<<"B", "T", "C", "U", "S", "D", "T">>), JsonString(<<"B", "/">>), JsonString(<<"B", "T", "C", "/">>),
   JsonString(<<" ", "/", " ", "\t">>)}

AmountValues ==
  {JsonUndefined, JsonNumber(15), JsonNumber(0), JsonNumber(-10),
   [type |-> "number", value |-> <<>>],
   JsonString(<<"2", ".", "5">>), JsonString(<<" ", "3", " ", "u", "n", "i", "t", "s">>), JsonString(<<"a", "b", "c">>), JsonString(<<"-", "1">>)}

PostInputs ==
  [baseUrl : BaseUrlValues, authorization : AuthorizationValues,
   buyExchange : ExchangeValues, sellExchange : ExchangeValues,
   symbol : SymbolValues, amount : AmountValues]

InitPair ==
  /\ env \in ProtocolEnvs
  /\ now = 0
  /\ cachedTopAssets = NoEntry
  /\ req = [r \in Requests |-> IdleRequest]
  /\ resp = [r \in Requests |-> NoResponse]
  /\ fetchLog = [e \in Range(SUPPORTED_EXCHANGES) |-> 0]
  /\ slotWrites = 0
  /\ snapshots = NoSnapshots
  /\ ranking = <<>>
  /\ TradeServiceIdle
  /\ JoinIdle
  /\ PairIdle
  /\ BookIdle

\* POST up to its await: the tests, then both callTradeOrder calls are made
\* (each runs to its fetch before Promise.allSettled is entered).
PostReceive ==
  /\ post.pc = "idle"
  /\ \E input \in PostInputs :
       \E code \in {ValidatePost(input)} :
         IF code # 0
           THEN /\ post' = [pc |-> "done", input |-> input, code |-> code, ok |-> FALSE]
                /\ UNCHANGED legs
           ELSE /\ post' = [pc |-> "awaiting", input |-> input, code |-> 0, ok |-> FALSE]
                /\ legs' = [s \in Sides |-> LegOrder(input, s)]
  /\ UNCHANGED <<siteVars, tradeVars, joinVars, bookVars>>

\* One callTradeOrder promise settles: fulfilled with ok (a 2xx answer),
\* fulfilled without ok (any other answer), or rejected (network error, or
\* the 40 s abort signal).
LegSettle(side) ==
  /\ post.pc = "awaiting"
  /\ legs[side].status = "pending"
  /\ \E outcome \in {"ok", "failed", "rejected"} :
       legs' = [legs EXCEPT ![side].status = outcome]
  /\ UNCHANGED <<siteVars, tradeVars, joinVars, post, bookVars>>

\* POST after Promise.allSettled: the answer
PostRespond ==
  /\ post.pc = "awaiting"
  /\ \A s \in Sides : legs[s].status \in {"ok", "failed", "rejected"}
  /\ post' = [post EXCEPT !.pc = "done", !.ok = BothOk(legs),
                          !.code = StatusOfPair(BothOk(legs))]
  /\ UNCHANGED <<siteVars, tradeVars, joinVars, legs, bookVars>>

NextPair ==
  \/ PostReceive
  \/ \E side \in Sides : LegSettle(side)
  \/ PostRespond

SpecPair == InitPair /\ [][NextPair]_vars

\* What the claim C29 lists as validation, stated on the request itself
HasBearerToken(input) ==
  LET a == toLowerCase(input.authorization)
  IN  Len(a) > 7 /\ SubSeq(a, 1, 7) = <<"b", "e", "a", "r", "e", "r", " ">>

IsAllowedExchange(value) ==
  /\ value.type = "string"
  /\ \E k \in DOMAIN ALLOWED_EXCHANGES :
       ALLOWED_EXCHANGES[k] = toLowerCase(trim(value.value))

ExchangesDiffer(input) ==
  toLowerCase(trim(input.buyExchange.value)) # toLowerCase(trim(input.sellExchange.value))

\* BASE/QUOTE: a base, a slash, a quote
IsBaseQuoteForm(value) ==
  /\ value.type = "string"
  /\ LET s == trim(value.value)
     IN  \E k \in DOMAIN s : s[k] = "/" /\ 1 < k /\ k < Len(s)

\* what POST tests of the symbol instead
IsSymbolAccepted(value) ==
  /\ value.type = "string"
  /\ LET s == trim(value.value)
     IN  Len(s) >= 3 /\ \E k \in DOMAIN s : s[k] = "/"

IsPositiveAmount(value) ==
  LET amount == chartToNumber(value) IN amount # <<>> /\ amount[1] > 0

IsConfigured(input) == \E k \in DOMAIN input.baseUrl : input.baseUrl[k] # "/"

ValidExceptSymbol(input) ==
  /\ HasBearerToken(input)
  /\ IsAllowedExchange(input.buyExchange)
  /\ IsAllowedExchange(input.sellExchange)
  /\ ExchangesDiffer(input)
  /\ IsPositiveAmount(input.amount)

LegsSubmitted == \A s \in Sides : legs[s].status # "none"

NoLegSubmitted == \A s \in Sides : legs[s].status = "none"

\* both legs are submitted or none is; after the answer both have settled,
\* each with its own outcome, and the status is 200 exactly when both
\* succeeded and 207 otherwise
PairOutcome ==
  /\ LegsSubmitted \/ NoLegSubmitted
  /\ (post.pc = "done" /\ LegsSubmitted) =>
       /\ \A s \in Sides : legs[s].status \in {"ok", "failed", "rejected"}
       /\ post.code = 200 <=> (legs["BUY"].status = "ok" /\ legs["SELL"].status = "ok")
       /\ post.code \in {200, 207}
       /\ post.ok <=> post.code = 200

\* C29: no leg is submitted to the trade service unless validation passes
\* (bearer token present, both exchanges allowed and different, symbol in
\* BASE/QUOTE form, amount > 0); once validation passes both the BUY and
\* the SELL leg are submitted, each leg keeps its own outcome, and the
\* status is 200 exactly when both legs succeeded and 207 otherwise.
C29_PairedOrder ==
  /\ ~NoLegSubmitted =>
       ValidExceptSymbol(post.input) /\ IsBaseQuoteForm(post.input.symbol)
  /\ (post.pc # "idle" /\ IsConfigured(post.input)
        /\ ValidExceptSymbol(post.input) /\ IsBaseQuoteForm(post.input.symbol))
       => LegsSubmitted
  /\ PairOutcome

\* C29, with the symbol test POST makes (three characters or more, one of
\* them a slash) in the place of the BASE/QUOTE form: this holds.
C29_PairedOrderWithSymbolTestOfCode ==
  /\ ~NoLegSubmitted =>
       ValidExceptSymbol(post.input) /\ IsSymbolAccepted(post.input.symbol)
  /\ (post.pc # "idle" /\ IsConfigured(post.input)
        /\ ValidExceptSymbol(post.input) /\ IsSymbolAccepted(post.input.symbol))
       => LegsSubmitted
  /\ PairOutcome

\* C29: both legs were submitted for the symbol "BTC/", which has no quote
C29_LegsSubmittedWithoutQuote ==
  /\ post.pc = "done"
  /\ post.code = 207
  /\ legs["BUY"].status = "ok"
  /\ legs["SELL"].status = "rejected"
  /\ legs["BUY"].symbol = <<"B", "T", "C", "/">>
  /\ ~IsBaseQuoteForm(post.input.symbol)

\* C29: a well-formed request answered 200, both legs fulfilled with ok
C29_BothLegsOk ==
  /\ post.pc = "done"
  /\ post.code = 200
  /\ IsBaseQuoteForm(post.input.symbol)
  /\ legs["BUY"].status = "ok" /\ legs["SELL"].status = "ok"
  /\ legs["BUY"].exchange # legs["SELL"].exchange

\* ------------------------------------------------------------------------
\* Site, order book: GET of app/api/orderbook/route.ts and its module-level
\* Map.  The key `${exchange}|${symbol}|${limit}` is the triple <<exchange,
\* symbol, limit>> (the exchange holds no "|" and the limit is a number, so
\* the string determines the triple).  An entry keeps expiresAt and, for the
\* payload, the time it was built.

ORDERBOOK_TTL_MS == 650

ORDERBOOK_CACHE_MAX == 350

DEFAULT_LIMIT == 20

BookTickMs == ORDERBOOK_TTL_MS \div 2

SupportedExchangeNames == ALLOWED_EXCHANGES \o << <<"c", "o", "i", "n", "b", "a", "s", "e">> >>

\* normalizeExchange of the order-book route: <<>> for null
bookNormalizeExchange(value) ==
  LET ex == toLowerCase(trim(value))
  IN  IF ex \in Range(SupportedExchangeNames) THEN ex ELSE <<>>

\* Number.parseInt(raw, 10): leading white space, a sign, the longest
\* digit prefix; <<>> (NaN) when there is no digit
parseInt(s) ==
  LET t == trimStart(s)
      signed == t # <<>> /\ Head(t) \in {"-", "+"}
      digits == DigitPrefix(IF signed THEN Tail(t) ELSE t)
  IN  IF digits = <<>> THEN NotANumber
      ELSE IF signed /\ Head(t) = "-" THEN <<0 - DigitsValue(digits)>>
      ELSE <<DigitsValue(digits)>>

Min(a, b) == IF a <= b THEN a ELSE b

\* raw is <<>> for null and for ""
parseLimit(raw) ==
  LET parsed == IF raw # <<>> THEN parseInt(raw) ELSE NotANumber
  IN  IF parsed = NotANumber \/ parsed[1] <= 0 THEN DEFAULT_LIMIT
      ELSE Max(5, Min(50, parsed[1]))

\* The tests of GET in their order: 0 when every one passes
ValidateBook(exchangeRaw, symbolRaw) ==
  LET exchange == bookNormalizeExchange(exchangeRaw)
  IN  IF exchange = <<>> THEN 400
      ELSE IF exchange = <<"c", "o", "i", "n", "b", "a", "s", "e">> THEN 400
      ELSE IF trim(symbolRaw) = <<>> THEN 400
      ELSE 0

CacheKey(exchangeRaw, symbolRaw, limitRaw) ==
  <<bookNormalizeExchange(exchangeRaw), trim(symbolRaw), parseLimit(limitRaw)>>

\* cached && cached.expiresAt > now
IsServed(cache, key, t) == key \in DOMAIN cache /\ cache[key].expiresAt > t

\* Mutation: the Map is never cleared
StoreOrderbookWithoutClear(cache, key, entry) ==
  [k \in DOMAIN cache \cup {key} |-> IF k = key THEN entry ELSE cache[k]]

\* orderbookCache.set(cacheKey, ...); if (size > 350) orderbookCache.clear()
StoreOrderbook(cache, key, entry) ==
  LET stored == [k \in DOMAIN cache \cup {key} |-> IF k = key THEN entry ELSE cache[k]]
  IN  IF Cardinality(DOMAIN stored) > ORDERBOOK_CACHE_MAX THEN <<>> ELSE stored

\* The Map after 350 answered requests at time 0: two exchanges, five
\* symbols, the limits 5..39.
WarmSymbols == {<<"B", "T", "C", "U", "S", "D", "T">>, <<"E", "T", "H", "U", "S", "D", "T">>, <<"S", "O", "L", "U", "S", "D", "T">>, <<"X", "R", "P", "U", "S", "D", "T">>, <<"A", "D", "A", "U", "S", "D", "T">>}

WarmCache ==
  [k \in {<<"b", "y", "b", "i", "t">>, <<"k", "r", "a", "k", "e", "n">>} \X WarmSymbols \X (5..39) |->
     [expiresAt |-> ORDERBOOK_TTL_MS, updatedAt |-> 0]]

\* The requests drawn: searchParams.get gives <<>> for an absent parameter
BookExchangeValues == {<<>>, <<" ", "B", "y", "B", "i", "t">>, <<"b", "i", "n", "a", "n", "c", "e">>, <<"c", "o", "i", "n", "b", "a", "s", "e">>, <<"f", "t", "x">>}

BookSymbolValues == {<<>>, <<" ">>, <<" ", "B", "T", "C", "U", "S", "D", "T", " ">>}

BookLimitValues == {<<>>, <<"9", "9">>, <<"0">>, <<"a", "b", "c">>}

InitBook ==
  /\ env \in ProtocolEnvs
  /\ now = 0
  /\ cachedTopAssets = NoEntry
  /\ req = [r \in Requests |-> IdleRequest]
  /\ resp = [r \in Requests |-> NoResponse]
  /\ fetchLog = [e \in Range(SUPPORTED_EXCHANGES) |-> 0]
  /\ slotWrites = 0
  /\ snapshots = NoSnapshots
  /\ ranking = <<>>
  /\ TradeServiceIdle
  /\ JoinIdle
  /\ PairIdle
  /\ orderbookCache \in {<<>>, WarmCache}
  /\ book = [r \in BookRequests |-> IdleBook]

BookTick ==
  /\ now < MaxBookTicks * BookTickMs
  /\ now' = now + BookTickMs
  /\ UNCHANGED <<env, cachedTopAssets, req, resp, fetchLog, slotWrites,
                 snapshots, ranking, tradeVars, joinVars, pairVars, bookVars>>

\* GET up to its await: the tests, the key, the lookup
BookStart(r) ==
  /\ book[r].pc = "idle"
  /\ (IF r = 1 THEN TRUE ELSE book[r - 1].pc # "idle")
  /\ \E exchangeRaw \in BookExchangeValues, symbolRaw \in BookSymbolValues,
        limitRaw \in BookLimitValues :
       \E code \in {ValidateBook(exchangeRaw, symbolRaw)},
          key \in {CacheKey(exchangeRaw, symbolRaw, limitRaw)} :
         book' = [book EXCEPT ![r] =
           IF code # 0
             THEN [@ EXCEPT !.pc = "done", !.now = now, !.code = code]
           ELSE IF IsServed(orderbookCache, key, now)
             THEN [@ EXCEPT !.pc = "done", !.key = key, !.now = now,
                            !.code = 200, !.hit = TRUE,
                            !.servedExpiry = orderbookCache[key].expiresAt]
           ELSE [@ EXCEPT !.pc = "fetching", !.key = key, !.now = now]]
  /\ UNCHANGED <<siteVars, tradeVars, joinVars, pairVars, orderbookCache>>

\* GET after its await: fetchOrderbook returned (store, answer 200) or
\* threw (answer 502)
BookFinish(r) ==
  /\ book[r].pc = "fetching"
  /\ \E outcome \in {"returned", "threw"} :
       IF outcome = "returned"
         THEN \E stored \in {StoreOrderbook(orderbookCache, book[r].key,
                               [expiresAt |-> book[r].now + ORDERBOOK_TTL_MS,
                                updatedAt |-> now])} :
                /\ orderbookCache' = stored
                /\ book' = [book EXCEPT ![r] =
                     [@ EXCEPT !.pc = "done", !.code = 200,
                               !.sizeBefore = Cardinality(DOMAIN orderbookCache),
                               !.known = book[r].key \in DOMAIN orderbookCache,
                               !.sizeAfter = Cardinality(DOMAIN stored)]]
         ELSE /\ book' = [book EXCEPT ![r] =
                     [@ EXCEPT !.pc = "done", !.code = 502,
                               !.sizeBefore = Cardinality(DOMAIN orderbookCache),
                               !.known = book[r].key \in DOMAIN orderbookCache,
                               !.sizeAfter = Cardinality(DOMAIN orderbookCache)]]
              /\ UNCHANGED orderbookCache
  /\ UNCHANGED <<siteVars, tradeVars, joinVars, pairVars>>

NextBook ==
  \/ BookTick
  \/ \E r \in BookRequests : BookStart(r)
  \/ \E r \in BookRequests : BookFinish(r)

SpecBook == InitBook /\ [][NextBook]_vars

CacheSize == Cardinality(DOMAIN orderbookCache)

\* the size the Map must have after a store that found sizeBefore entries
SizeAfterStore(sizeBefore, known) ==
  LET size == IF known THEN sizeBefore ELSE sizeBefore + 1
  IN  IF size > 350 THEN 0 ELSE size

\* C30: the order-book Map never holds more than 350 entries after a
\* request (a store that takes it beyond 350 empties it, the entry just
\* stored included); an entry is served only while its expiresAt is greater
\* than now; a request answered 502 does not write to the Map.
C30_OrderbookCacheBound ==
  /\ [](/\ CacheSize <= 350
        /\ \A r \in BookRequests :
             /\ (book[r].pc = "done" /\ book[r].code = 200 /\ ~book[r].hit) =>
                  book[r].sizeAfter = SizeAfterStore(book[r].sizeBefore, book[r].known)
             /\ book[r].hit => book[r].servedExpiry > book[r].now
             /\ book[r].code = 502 => book[r].sizeAfter = book[r].sizeBefore)
  /\ [][\A r \in BookRequests :
          /\ (book[r].pc = "fetching" /\ book'[r].code = 502) =>
               orderbookCache' = orderbookCache
          /\ (book[r].pc = "idle" /\ book'[r].hit) =>
               /\ orderbookCache' = orderbookCache
               /\ book'[r].key \in DOMAIN orderbookCache
               /\ orderbookCache[book'[r].key].expiresAt > now
          /\ (book[r].pc = "fetching" /\ book'[r].code = 200
                /\ Cardinality(DOMAIN orderbookCache \cup {book[r].key}) > 350) =>
               orderbookCache' = <<>>]_vars

\* C30: one request was served from the full Map while its entry was fresh,
\* and one stored the 351st entry, which emptied the Map
C30_Witness ==
  \E r1, r2 \in BookRequests :
    /\ book[r1].pc = "done" /\ book[r1].hit /\ book[r1].code = 200
    /\ book[r1].servedExpiry = book[r1].now + BookTickMs
    /\ book[r2].pc = "done" /\ book[r2].code = 200 /\ ~book[r2].hit
    /\ book[r2].sizeBefore = 350 /\ ~book[r2].known /\ book[r2].sizeAfter = 0
    /\ CacheSize = 0

\* C30: a request that found the Map full was answered 502 and left it full
C30_FailedFetchWitness ==
  \E r \in BookRequests :
    /\ book[r].pc = "done" /\ book[r].code = 502
    /\ book[r].sizeBefore = 350 /\ CacheSize = 350

====
